---- MODULE Spec2Model ----
(***************************************************************************)
(* Rule validation of the firewall GitOps repository:                      *)
(*   scripts/validate_network.py   NetworkValidator                        *)
(*   scripts/validate_security.py  SecurityPolicyValidator                 *)
(* A Python str is a sequence of one-character strings, a list is a        *)
(* sequence, a dict is a record plus the set of keys that are present.     *)
(***************************************************************************)
EXTENDS Integers, Sequences, FiniteSets, TLC

(***************************************************************************)
(* Bounds                                                                  *)
(***************************************************************************)
\* longest generated address token (all strings over Alphabet up to it)
MaxTokLen == 3
\* validate_* calls made on one validator object between two reset() calls
MaxCalls == 2

(***************************************************************************)
(* str helpers                                                             *)
(***************************************************************************)
UpperChars == <<"A","B","C","D","E","F","G","H","I","J","K","L","M",
                "N","O","P","Q","R","S","T","U","V","W","X","Y","Z">>
LowerChars == <<"a","b","c","d","e","f","g","h","i","j","k","l","m",
                "n","o","p","q","r","s","t","u","v","w","x","y","z">>
DigitChars == <<"0","1","2","3","4","5","6","7","8","9">>

Range(s) == {s[i] : i \in 1..Len(s)}

IsLetter(c) == c \in Range(UpperChars) \cup Range(LowerChars)
IsDigit(c) == c \in Range(DigitChars)
IsHexDigit(c) == IsDigit(c) \/ c \in {"a","b","c","d","e","f","A","B","C","D","E","F"}

\* str.lower() on one character
LowerChar(c) ==
    IF c \in Range(UpperChars)
    THEN LowerChars[CHOOSE i \in 1..26 : UpperChars[i] = c]
    ELSE c

\* str.lower()
Lower(s) == [i \in 1..Len(s) |-> LowerChar(s[i])]

\* c in s
Contains(s, c) == \E i \in 1..Len(s) : s[i] = c

\* x in list
InList(x, list) == \E i \in 1..Len(list) : list[i] = x

\* the positions of sep in s, framed by 0 and Len(s)+1: cut[k] is the
\* position of the k-th separator
Cuts(s, sep) ==
    [k \in 0..(Cardinality({i \in 1..Len(s) : s[i] = sep}) + 1) |->
        IF k = 0 THEN 0
        ELSE IF k = Cardinality({i \in 1..Len(s) : s[i] = sep}) + 1 THEN Len(s) + 1
        ELSE CHOOSE i \in 1..Len(s) :
                /\ s[i] = sep
                /\ Cardinality({j \in 1..(i-1) : s[j] = sep}) = k - 1]

\* s.split(sep) for a one-character separator
Split(s, sep) ==
    \* the pieces between consecutive cuts
    CHOOSE parts \in {[k \in 1..(Cardinality(DOMAIN cut) - 1) |->
                         SubSeq(s, cut[k-1] + 1, cut[k] - 1)] : cut \in {Cuts(s, sep)}} : TRUE

DigitVal(c) == (CHOOSE i \in 1..10 : DigitChars[i] = c) - 1

\* int(s) for a string of at most five ASCII digits (longer strings are
\* decided by their length where they are used)
DecVal(s) ==
    LET d(i) == IF i <= Len(s) THEN DigitVal(s[Len(s) + 1 - i]) ELSE 0
    IN d(1) + 10 * d(2) + 100 * d(3) + 1000 * d(4) + 10000 * d(5)

\* a string of digits without its leading zeros (one digit is kept)
StripZeros(s) ==
    IF s = <<>> THEN s
    ELSE SubSeq(s, CHOOSE i \in 1..Len(s) :
                      /\ s[i] # "0" \/ i = Len(s)
                      /\ \A j \in 1..(i-1) : s[j] = "0",
                Len(s))

AllDigits(s) == \A i \in 1..Len(s) : IsDigit(s[i])

(***************************************************************************)
(* ipaddress, as called from NetworkValidator.is_valid_ip_or_network       *)
(***************************************************************************)
\* IPv4Address._parse_octet: non-empty, ASCII digits, at most 3 characters,
\* no leading zero, value at most 255
OctetOK(o) ==
    /\ o # <<>>
    /\ AllDigits(o)
    /\ Len(o) <= 3
    /\ ~(Len(o) > 1 /\ o[1] = "0")
    /\ DecVal(o) <= 255

\* IPv4Address._ip_int_from_string succeeds
IPv4IntOK(s) ==
    /\ s # <<>>
    /\ \E octets \in {Split(s, ".")} :
          Len(octets) = 4 /\ \A i \in 1..4 : OctetOK(octets[i])

\* IPv4Address(s) succeeds
IsIPv4Address(s) == ~Contains(s, "/") /\ IPv4IntOK(s)

\* IPv6Address._parse_hextet
HextetOK(h) ==
    /\ Len(h) >= 1 /\ Len(h) <= 4
    /\ \A i \in 1..Len(h) : IsHexDigit(h[i])

\* IPv6Address._ip_int_from_string succeeds
IPv6IntOK(s) ==
    /\ s # <<>>
    /\ \E parts0 \in {Split(s, ":")} :
          /\ Len(parts0) >= 3
          /\ Contains(parts0[Len(parts0)], ".") => IsIPv4Address(parts0[Len(parts0)])
          /\ LET parts == IF Contains(parts0[Len(parts0)], ".")
                          THEN SubSeq(parts0, 1, Len(parts0)-1) \o <<(<<"0">>), (<<"0">>)>>
                          ELSE parts0
                 n == Len(parts)
                 skips == {i \in 2..(n-1) : parts[i] = <<>>}
             IN /\ n <= 9
                /\ Cardinality(skips) <= 1
                /\ IF skips # {}
                   THEN LET i == CHOOSE k \in skips : TRUE
                            hi0 == i - 1
                            lo0 == n - i
                            hi == IF parts[1] = <<>> THEN hi0 - 1 ELSE hi0
                            lo == IF parts[n] = <<>> THEN lo0 - 1 ELSE lo0
                        IN /\ parts[1] = <<>> => hi = 0
                           /\ parts[n] = <<>> => lo = 0
                           /\ 8 - (hi + lo) >= 1
                           /\ \A k \in 1..hi : HextetOK(parts[k])
                           /\ \A k \in (n-lo+1)..n : HextetOK(parts[k])
                   ELSE /\ n = 8
                        /\ \A k \in 1..n : HextetOK(parts[k])

\* IPv6Address._split_scope_id succeeds; ScopeAddr is the address part
ScopeOK(s) ==
    Contains(s, "%") =>
        \E parts \in {Split(s, "%")} : Len(parts) = 2 /\ parts[2] # <<>>
ScopeAddr(s) == Split(s, "%")[1]

\* IPv6Address(s) succeeds
IsIPv6Address(s) ==
    ~Contains(s, "/") /\ ScopeOK(s) /\ \E a \in {ScopeAddr(s)} : IPv6IntOK(a)

\* ipaddress.ip_address(s) does not raise ValueError
IsIPAddress(s) == IsIPv4Address(s) \/ IsIPv6Address(s)

\* _BaseV4._prefix_from_prefix_string / _BaseV6: the prefix length, -1 when
\* NetmaskValueError is raised (Python ints are unbounded: more than three
\* significant digits are out of range for both families)
PrefixFromPrefixString(p, max) ==
    IF p # <<>> /\ AllDigits(p) /\ Len(StripZeros(p)) <= 3
                /\ DecVal(StripZeros(p)) <= max
    THEN DecVal(StripZeros(p))
    ELSE -1

Pow2(n) == CASE n = 0 -> 1 [] n = 1 -> 2 [] n = 2 -> 4 [] n = 3 -> 8
             [] n = 4 -> 16 [] n = 5 -> 32 [] n = 6 -> 64 [] n = 7 -> 128
             [] n = 8 -> 256

\* the i-th octet of the netmask with k leading one bits
MaskOctet(k, i) ==
    LET b == IF k - 8 * (i-1) >= 8 THEN 8
             ELSE IF k - 8 * (i-1) <= 0 THEN 0 ELSE k - 8 * (i-1)
    IN 256 - Pow2(8 - b)

\* _BaseV4._prefix_from_ip_string: dotted netmask first, then hostmask
PrefixFromIPString(m) ==
    IF ~IPv4IntOK(m) THEN -1
    ELSE LET o == [i \in 1..4 |-> DecVal(Split(m, ".")[i])]
             nets == {k \in 0..32 : \A i \in 1..4 : o[i] = MaskOctet(k, i)}
             hosts == {k \in 0..32 : \A i \in 1..4 : 255 - o[i] = MaskOctet(k, i)}
         IN IF nets # {} THEN CHOOSE k \in nets : TRUE
            ELSE IF hosts # {} THEN CHOOSE k \in hosts : TRUE
            ELSE -1

\* IPv4Network._make_netmask on the text after '/'
V4Prefix(m) ==
    IF PrefixFromPrefixString(m, 32) >= 0 THEN PrefixFromPrefixString(m, 32)
    ELSE PrefixFromIPString(m)

\* IPv4Network(s, strict=False): prefix length, -1 when it raises
V4NetworkPrefix(s) ==
    LET a == Split(s, "/")
    IN IF Len(a) > 2 \/ ~IsIPv4Address(a[1]) THEN -1
       ELSE IF Len(a) = 1 THEN 32 ELSE V4Prefix(a[2])

\* IPv6Network(s, strict=False): prefix length, -1 when it raises
V6NetworkPrefix(s) ==
    LET a == Split(s, "/")
    IN IF Len(a) > 2 \/ ~IsIPv6Address(a[1]) THEN -1
       ELSE IF Len(a) = 1 THEN 128 ELSE PrefixFromPrefixString(a[2], 128)

\* ipaddress.ip_network(s, strict=False).prefixlen, -1 when ValueError
NetworkPrefix(s) ==
    IF V4NetworkPrefix(s) >= 0 THEN V4NetworkPrefix(s) ELSE V6NetworkPrefix(s)

\* ipaddress.ip_network(s, strict=False) does not raise ValueError
IsIPNetwork(s) == NetworkPrefix(s) >= 0

(***************************************************************************)
(* String literals of the two validators                                   *)
(***************************************************************************)
S_any == <<"a","n","y">>
S_none == <<"n","o","n","e">>
S_allow == <<"a","l","l","o","w">>
S_source == <<"s","o","u","r","c","e">>
S_destination == <<"d","e","s","t","i","n","a","t","i","o","n">>
S_trust == <<"t","r","u","s","t">>
S_untrust == <<"u","n","t","r","u","s","t">>
S_dmz == <<"d","m","z">>
S_internal == <<"i","n","t","e","r","n","a","l">>
S_external == <<"e","x","t","e","r","n","a","l">>
S_management == <<"m","a","n","a","g","e","m","e","n","t">>
S_database == <<"d","a","t","a","b","a","s","e">>
S_web == <<"w","e","b">>
S_app == <<"a","p","p">>
S_tcp == <<"t","c","p">>
S_udp == <<"u","d","p">>
S_sctp == <<"s","c","t","p">>
S_application_default == <<"a","p","p","l","i","c","a","t","i","o","n","-","d","e","f","a","u","l","t">>
S_Unknown == <<"U","n","k","n","o","w","n">>
A_0_0_0_0_0 == <<"0",".","0",".","0",".","0","/","0">>
A_255_255_255_255 == <<"2","5","5",".","2","5","5",".","2","5","5",".","2","5","5">>
A_v6_all == <<":",":","/","0">>

\* dict.get(key, default); a dict is a record with the set `keys` of the
\* keys that are present
Get(d, key, default) == IF key \in d.keys THEN d[key] ELSE default

(***************************************************************************)
(* validate_network.py                                                     *)
(***************************************************************************)
\* the two values of address_object_pattern: the configured one and the
\* default argument of config.get in is_valid_ip_or_network
PAT_OBJECT == "^[a-zA-Z][a-zA-Z0-9_-]*$"
PAT_LETTER == "^[a-zA-Z]"

NETWORK_CONFIG ==
    [keys |-> {"warn_addresses", "valid_zones", "address_object_pattern"},
     warn_addresses |-> <<A_0_0_0_0_0, A_255_255_255_255, A_v6_all>>,
     valid_zones |-> <<S_trust, S_untrust, S_dmz, S_internal, S_external,
                       S_management, S_database, S_web, S_app>>,
     address_object_pattern |-> PAT_OBJECT]

\* a string minus one trailing newline: where '$' of re.match may match
DollarBody(s) ==
    IF Len(s) > 0 /\ s[Len(s)] = "\n" THEN SubSeq(s, 1, Len(s)-1) ELSE s

\* [a-zA-Z][a-zA-Z0-9_-]* matches the whole of s
IsName(s) ==
    /\ Len(s) >= 1
    /\ IsLetter(s[1])
    /\ \A i \in 2..Len(s) : IsLetter(s[i]) \/ IsDigit(s[i]) \/ s[i] \in {"_", "-"}

\* re.match(pattern, s) for the two address-object patterns
ReMatch(pattern, s) ==
    IF pattern = PAT_OBJECT THEN IsName(DollarBody(s))
    ELSE Len(s) >= 1 /\ IsLetter(s[1])

\* is_valid_ip_or_network with the network parse tried before the literal
\* IP parse
is_valid_ip_or_network_network_first(cfg, addr) ==
    IF Lower(addr) \in {S_any, S_none} THEN <<TRUE, "keyword">>
    ELSE IF /\ ReMatch(Get(cfg, "address_object_pattern", PAT_LETTER), addr)
            /\ ~(\E c \in {".", ":", "/"} : Contains(addr, c))
         THEN <<TRUE, "address_object">>
    ELSE IF IsIPNetwork(addr) THEN <<TRUE, "ip_network">>
    ELSE IF IsIPAddress(addr) THEN <<TRUE, "ip_address">>
    ELSE <<FALSE, "invalid">>

\* is_valid_ip_or_network with '-' among the characters an address object
\* may not contain
is_valid_ip_or_network_no_hyphen(cfg, addr) ==
    IF Lower(addr) \in {S_any, S_none} THEN <<TRUE, "keyword">>
    ELSE IF /\ ReMatch(Get(cfg, "address_object_pattern", PAT_LETTER), addr)
            /\ ~(\E c \in {".", ":", "/", "-"} : Contains(addr, c))
         THEN <<TRUE, "address_object">>
    ELSE IF IsIPAddress(addr) THEN <<TRUE, "ip_address">>
    ELSE IF IsIPNetwork(addr) THEN <<TRUE, "ip_network">>
    ELSE <<FALSE, "invalid">>

\* NetworkValidator.is_valid_ip_or_network: <<is_valid, addr_type>>
is_valid_ip_or_network(cfg, addr) ==
    IF Lower(addr) \in {S_any, S_none} THEN <<TRUE, "keyword">>
    ELSE IF /\ ReMatch(Get(cfg, "address_object_pattern", PAT_LETTER), addr)
            /\ ~(\E c \in {".", ":", "/"} : Contains(addr, c))
         THEN <<TRUE, "address_object">>
    ELSE IF IsIPAddress(addr) THEN <<TRUE, "ip_address">>
    ELSE IF IsIPNetwork(addr) THEN <<TRUE, "ip_network">>
    ELSE <<FALSE, "invalid">>

\* one message of NetworkValidator: the f-string, its direction, the token
\* it quotes and (large network only) log2 of net.num_addresses
NetMsg(text, type, item, arg) ==
    [text |-> text, type |-> type, item |-> item, arg |-> arg]

\* bits of the address family of a network token
FamilyBits(addr) == IF V4NetworkPrefix(addr) >= 0 THEN 32 ELSE 128

\* NetworkValidator.add_error, add_warning, add_info on st, the record
\* [errors, warnings, info, valid] of the three lists and the local `valid`
add_error(st, message) == [st EXCEPT !.errors = Append(@, message)]
add_warning(st, message) == [st EXCEPT !.warnings = Append(@, message)]
add_info(st, message) == [st EXCEPT !.info = Append(@, message)]

\* if addr_type == "address_object": self.add_info(...)
note_address_object(st, addr, address_type, addr_type) ==
    IF addr_type = "address_object"
    THEN add_info(st, NetMsg("uses address object", address_type, addr, 0))
    ELSE st

\* if addr in self.config.get("warn_addresses", []): self.add_warning(...)
warn_special_address(cfg, st, addr, address_type) ==
    IF InList(addr, Get(cfg, "warn_addresses", <<>>))
    THEN add_warning(st, NetMsg("contains special address", address_type, addr, 0))
    ELSE st

\* warn_large_network with the /16 networks warned about as well
warn_large_network_from_16(st, addr, address_type, addr_type, prefixlen, max_prefixlen) ==
    IF addr_type = "ip_network" /\ Contains(addr, "/") /\ prefixlen <= 16
    THEN add_warning(st, NetMsg("has large network", address_type, addr, max_prefixlen - prefixlen))
    ELSE st

\* if addr_type == "ip_network" and '/' in addr: ... if net.prefixlen < 16
warn_large_network(st, addr, address_type, addr_type, prefixlen, max_prefixlen) ==
    IF addr_type = "ip_network" /\ Contains(addr, "/") /\ prefixlen < 16
    THEN add_warning(st, NetMsg("has large network", address_type, addr, max_prefixlen - prefixlen))
    ELSE st

\* the loop body without the `continue` after the error: an invalid token
\* goes on to the denylist check
validate_classified_no_continue(cfg, st, addr, address_type, r) ==
    warn_large_network(
        warn_special_address(cfg,
            note_address_object(
                IF ~r[1]
                THEN [add_error(st, NetMsg("Invalid address", address_type, addr, 0)) EXCEPT !.valid = FALSE]
                ELSE st,
                addr, address_type, r[2]),
            addr, address_type),
        addr, address_type, r[2], NetworkPrefix(addr), FamilyBits(addr))

\* the body of the for loop of validate_addresses once the token is
\* classified as r = <<is_valid, addr_type>>
validate_classified(cfg, st, addr, address_type, r) ==
    IF ~r[1]
    THEN [add_error(st, NetMsg("Invalid address", address_type, addr, 0)) EXCEPT !.valid = FALSE]
    ELSE warn_large_network(
             warn_special_address(cfg, note_address_object(st, addr, address_type, r[2]),
                                  addr, address_type),
             addr, address_type, r[2], NetworkPrefix(addr), FamilyBits(addr))

\* the body of the for loop of validate_addresses for one token
validate_address(cfg, st, addr, address_type) ==
    validate_classified(cfg, st, addr, address_type, is_valid_ip_or_network(cfg, addr))

RECURSIVE validate_addresses_loop(_, _, _, _)
validate_addresses_loop(cfg, st, addresses, address_type) ==
    IF addresses = <<>> THEN st
    ELSE validate_addresses_loop(cfg, validate_address(cfg, st, Head(addresses), address_type),
                                 Tail(addresses), address_type)

\* NetworkValidator.validate_addresses: the lists after the call, and in
\* `valid` the returned value
validate_addresses(cfg, st, addresses, address_type) ==
    validate_addresses_loop(cfg, [st EXCEPT !.valid = TRUE], addresses, address_type)

\* [z.lower() for z in self.config.get("valid_zones", [])]
valid_zones(cfg) ==
    {Lower(Get(cfg, "valid_zones", <<>>)[i]) : i \in 1..Len(Get(cfg, "valid_zones", <<>>))}

\* validate_zone with the zone compared as written, not lower-cased
validate_zone_case_sensitive(cfg, st, zone, zone_type) ==
    IF zone \notin valid_zones(cfg) /\ Lower(zone) # S_any
    THEN add_warning(st, NetMsg("Unknown zone", zone_type, zone, 0))
    ELSE st

\* the body of the for loop of validate_zones for one zone
validate_zone(cfg, st, zone, zone_type) ==
    IF Lower(zone) \notin valid_zones(cfg) /\ Lower(zone) # S_any
    THEN add_warning(st, NetMsg("Unknown zone", zone_type, zone, 0))
    ELSE st

\* NetworkValidator.validate_zones (always returns True)
RECURSIVE validate_zones(_, _, _, _)
validate_zones(cfg, st, zones, zone_type) ==
    IF zones = <<>> THEN st
    ELSE validate_zones(cfg, validate_zone(cfg, st, Head(zones), zone_type), Tail(zones), zone_type)

\* int(s) > 65535 for a string of digits of any length
PortTooBig(s) == Len(StripZeros(s)) > 5 \/ DecVal(StripZeros(s)) > 65535

\* x < y for two strings of digits without leading zeros
DigitsLess(x, y) ==
    IF Len(x) # Len(y) THEN Len(x) < Len(y)
    ELSE \E i \in 1..Len(x) :
            /\ DigitVal(x[i]) < DigitVal(y[i])
            /\ \A j \in 1..(i-1) : x[j] = y[j]

\* int(a) < int(b) for two strings of digits of any length
IntLess(a, b) == DigitsLess(StripZeros(a), StripZeros(b))

\* the groups of parts = service.split("-") under
\* ^(tcp|udp|sctp)-(\d+)(?:-(\d+))?$: <<start, end or empty>>, <<>> when
\* there is no match
PortGroups(parts) ==
    IF /\ Len(parts) \in {2, 3}
       /\ Lower(parts[1]) \in {S_tcp, S_udp, S_sctp}
       /\ \A i \in 2..Len(parts) : parts[i] # <<>> /\ AllDigits(parts[i])
    THEN <<parts[2], IF Len(parts) = 3 THEN parts[3] ELSE <<>> >>
    ELSE <<>>

\* re.match(r"^(tcp|udp|sctp)-(\d+)(?:-(\d+))?$", service, re.IGNORECASE)
PortMatch(service) == PortGroups(Split(DollarBody(service), "-"))

\* ^application-default$|^any$|^[a-zA-Z][a-zA-Z0-9_-]*$ with re.IGNORECASE,
\* on the string minus its trailing newline
NamedService(s) ==
    Lower(s) = S_application_default \/ Lower(s) = S_any \/ IsName(s)

\* re.match(service_pattern, service, re.IGNORECASE)
ServicePatternMatch(service) ==
    PortMatch(service) # <<>> \/ NamedService(DollarBody(service))

\* port_end = int(port_match.group(3)) if port_match.group(3) else port_start
PortEnd(port_match) == IF port_match[2] # <<>> THEN port_match[2] ELSE port_match[1]

\* check_port_number with the test of the start port only
check_port_number_start_only(st, service, port_start, port_end) ==
    IF PortTooBig(port_start)
    THEN [add_error(st, NetMsg("Invalid port number", "", service, 0)) EXCEPT !.valid = FALSE]
    ELSE st

\* if port_start > 65535 or port_end > 65535
check_port_number(st, service, port_start, port_end) ==
    IF PortTooBig(port_start) \/ PortTooBig(port_end)
    THEN [add_error(st, NetMsg("Invalid port number", "", service, 0)) EXCEPT !.valid = FALSE]
    ELSE st

\* if port_end < port_start
check_port_range(st, service, port_start, port_end) ==
    IF IntLess(port_end, port_start)
    THEN [add_error(st, NetMsg("Invalid port range", "", service, 0)) EXCEPT !.valid = FALSE]
    ELSE st

\* if port_match: the two port checks
check_ports(st, service, port_match) ==
    IF port_match = <<>> THEN st
    ELSE check_port_range(
             check_port_number(st, service, port_match[1], PortEnd(port_match)),
             service, port_match[1], PortEnd(port_match))

\* the body of the for loop of validate_services for one service
validate_service(st, service) ==
    check_ports(IF ~ServicePatternMatch(service)
                THEN add_warning(st, NetMsg("Unusual service format", "", service, 0))
                ELSE st,
                service, PortMatch(service))

RECURSIVE validate_services_loop(_, _)
validate_services_loop(st, services) ==
    IF services = <<>> THEN st
    ELSE validate_services_loop(validate_service(st, Head(services)), Tail(services))

\* NetworkValidator.validate_services: `valid` holds the returned value
validate_services(st, services) ==
    validate_services_loop([st EXCEPT !.valid = TRUE], services)

\* if not self.validate_addresses(...): valid = False
and_validate_addresses(cfg, st, addresses, address_type) ==
    [validate_addresses(cfg, st, addresses, address_type) EXCEPT !.valid = st.valid /\ @]

\* if services: self.validate_services(services), the returned value dropped
call_validate_services(st, services) ==
    IF services # <<>>
    THEN [validate_services(st, services) EXCEPT !.valid = st.valid]
    ELSE st

\* NetworkValidator.validate_rule: the lists after the call, and in `valid`
\* the returned value
validate_rule(cfg, st, rule) ==
    call_validate_services(
        validate_zones(cfg,
            validate_zones(cfg,
                and_validate_addresses(cfg,
                    and_validate_addresses(cfg, [st EXCEPT !.valid = TRUE],
                                           Get(rule, "source_address", <<>>), S_source),
                    Get(rule, "destination_address", <<>>), S_destination),
                Get(rule, "source_zone", <<>>), S_source),
            Get(rule, "destination_zone", <<>>), S_destination),
        Get(rule, "service", <<>>))

(***************************************************************************)
(* validate_security.py                                                    *)
(***************************************************************************)
S_tcp_22 == <<"t","c","p","-","2","2">>
S_tcp_23 == <<"t","c","p","-","2","3">>
S_tcp_3389 == <<"t","c","p","-","3","3","8","9">>
S_tcp_1433 == <<"t","c","p","-","1","4","3","3">>
S_tcp_3306 == <<"t","c","p","-","3","3","0","6">>
S_tcp_5432 == <<"t","c","p","-","5","4","3","2">>
S_tcp_27017 == <<"t","c","p","-","2","7","0","1","7">>
S_unknown_tcp == <<"u","n","k","n","o","w","n","-","t","c","p">>
S_unknown_udp == <<"u","n","k","n","o","w","n","-","u","d","p">>
S_bittorrent == <<"b","i","t","t","o","r","r","e","n","t">>
S_tor == <<"t","o","r">>

SECURITY_POLICIES ==
    [keys |-> {"prohibited_sources", "prohibited_destinations_allow", "high_risk_ports",
               "protected_zones", "restricted_applications", "required_tags_production",
               "max_addresses_per_rule", "require_logging", "require_description",
               "require_ticket_id"},
     prohibited_sources |-> << A_0_0_0_0_0 >>,
     prohibited_destinations_allow |-> <<>>,
     high_risk_ports |-> <<S_tcp_22, S_tcp_23, S_tcp_3389, S_tcp_1433, S_tcp_3306,
                           S_tcp_5432, S_tcp_27017>>,
     protected_zones |-> <<S_trust, S_internal, S_database, S_management>>,
     restricted_applications |-> <<S_unknown_tcp, S_unknown_udp, S_bittorrent, S_tor>>,
     required_tags_production |-> <<>>,
     max_addresses_per_rule |-> 50,
     require_logging |-> TRUE,
     require_description |-> TRUE,
     require_ticket_id |-> TRUE]

\* the dict appended by add_error / add_warning; item is the string the
\* f-string of the message quotes (<<>> when none), arg the count it quotes
SecMsg(rule_name, message, item, severity) ==
    [rule |-> rule_name, message |-> message, item |-> item, arg |-> 0, severity |-> severity]

\* [x.lower() for x in list] as a set, for the `in` tests
LowerSet(list) == {Lower(list[i]) : i \in 1..Len(list)}

\* str.strip()
IsSpace(c) == c \in {" ", "\n", "\t", "\r"}
Strip(s) ==
    IF \A i \in 1..Len(s) : IsSpace(s[i]) THEN <<>>
    ELSE SubSeq(s, CHOOSE i \in 1..Len(s) : ~IsSpace(s[i]) /\ \A j \in 1..(i-1) : IsSpace(s[j]),
                   CHOOSE i \in 1..Len(s) : ~IsSpace(s[i]) /\ \A j \in (i+1)..Len(s) : IsSpace(s[j]))

\* _check_any_usage without the test of the action
check_any_usage_any_action(st, rule, rule_name, action) ==
    LET source_addresses == Get(rule, "source_address", <<>>)
        dest_addresses == Get(rule, "destination_address", <<>>)
    IN IF InList(S_any, source_addresses) /\ InList(S_any, dest_addresses)
       THEN [st EXCEPT !.errors = Append(@, SecMsg(rule_name, "any source AND any destination", <<>>, "ERROR"))]
       ELSE IF InList(S_any, source_addresses)
       THEN [st EXCEPT !.warnings = Append(@, SecMsg(rule_name, "any source", <<>>, "WARNING"))]
       ELSE IF InList(S_any, dest_addresses)
       THEN [st EXCEPT !.warnings = Append(@, SecMsg(rule_name, "any destination", <<>>, "WARNING"))]
       ELSE st

\* SecurityPolicyValidator._check_any_usage; st is [errors, warnings]
check_any_usage(st, rule, rule_name, action) ==
    LET source_addresses == Get(rule, "source_address", <<>>)
        dest_addresses == Get(rule, "destination_address", <<>>)
        applications == Get(rule, "application", <<>>)
        services == Get(rule, "service", <<>>)
        s1 == IF InList(S_any, source_addresses) /\ InList(S_any, dest_addresses)
              THEN [st EXCEPT !.errors = Append(@, SecMsg(rule_name, "any source AND any destination", <<>>, "ERROR"))]
              ELSE IF InList(S_any, source_addresses)
              THEN [st EXCEPT !.warnings = Append(@, SecMsg(rule_name, "any source", <<>>, "WARNING"))]
              ELSE IF InList(S_any, dest_addresses)
              THEN [st EXCEPT !.warnings = Append(@, SecMsg(rule_name, "any destination", <<>>, "WARNING"))]
              ELSE st
        s2 == IF InList(S_any, applications) /\ InList(S_any, services)
              THEN [s1 EXCEPT !.warnings = Append(@, SecMsg(rule_name, "any application and any service", <<>>, "WARNING"))]
              ELSE s1
    IN IF action = S_allow THEN s2 ELSE st

\* _check_source_addresses without the test of the action
check_source_addresses_any_action(pol, st, rule, rule_name, action) ==
    LET Test(addr) == InList(addr, Get(pol, "prohibited_sources", <<>>))
        Msg(addr) == SecMsg(rule_name, "Prohibited source address", addr, "ERROR")
        hits == SelectSeq(Get(rule, "source_address", <<>>), Test)
    IN [st EXCEPT !.errors = @ \o [i \in 1..Len(hits) |-> Msg(hits[i])]]

\* SecurityPolicyValidator._check_source_addresses
check_source_addresses(pol, st, rule, rule_name, action) ==
    LET Test(addr) == InList(addr, Get(pol, "prohibited_sources", <<>>)) /\ action = S_allow
        Msg(addr) == SecMsg(rule_name, "Prohibited source address", addr, "ERROR")
        hits == SelectSeq(Get(rule, "source_address", <<>>), Test)
    IN [st EXCEPT !.errors = @ \o [i \in 1..Len(hits) |-> Msg(hits[i])]]

\* SecurityPolicyValidator._check_high_risk_ports
check_high_risk_ports(pol, st, rule, rule_name, action) ==
    LET Test(service) == Lower(service) \in LowerSet(Get(pol, "high_risk_ports", <<>>))
        Msg(service) == SecMsg(rule_name, "High-risk port detected", service, "WARNING")
        hits == SelectSeq(Get(rule, "service", <<>>), Test)
    IN IF action = S_allow
       THEN [st EXCEPT !.warnings = @ \o [i \in 1..Len(hits) |-> Msg(hits[i])]]
       ELSE st

\* SecurityPolicyValidator._check_zone_policies
check_zone_policies(pol, st, rule, rule_name, action) ==
    LET source_zones == Get(rule, "source_zone", <<>>)
        Test(zone) == Lower(zone) \in LowerSet(Get(pol, "protected_zones", <<>>))
        Msg(zone) == SecMsg(rule_name, "untrust to protected zone", zone, "WARNING")
        hits == SelectSeq(Get(rule, "destination_zone", <<>>), Test)
    IN IF action = S_allow /\ (InList(S_untrust, source_zones) \/ InList(S_external, source_zones))
       THEN [st EXCEPT !.warnings = @ \o [i \in 1..Len(hits) |-> Msg(hits[i])]]
       ELSE st

\* _check_restricted_applications with the application compared as written,
\* not lower-cased
check_restricted_applications_case_sensitive(pol, st, rule, rule_name, action) ==
    LET Test(app) == app \in LowerSet(Get(pol, "restricted_applications", <<>>))
        Msg(app) == SecMsg(rule_name, "Restricted application detected", app, "ERROR")
        hits == SelectSeq(Get(rule, "application", <<>>), Test)
    IN IF action = S_allow
       THEN [st EXCEPT !.errors = @ \o [i \in 1..Len(hits) |-> Msg(hits[i])]]
       ELSE st

\* SecurityPolicyValidator._check_restricted_applications
check_restricted_applications(pol, st, rule, rule_name, action) ==
    LET Test(app) == Lower(app) \in LowerSet(Get(pol, "restricted_applications", <<>>))
        Msg(app) == SecMsg(rule_name, "Restricted application detected", app, "ERROR")
        hits == SelectSeq(Get(rule, "application", <<>>), Test)
    IN IF action = S_allow
       THEN [st EXCEPT !.errors = @ \o [i \in 1..Len(hits) |-> Msg(hits[i])]]
       ELSE st

\* SecurityPolicyValidator._check_logging
check_logging(pol, st, rule, rule_name) ==
    LET log_start == Get(rule, "log_at_session_start", FALSE)
        log_end == Get(rule, "log_at_session_end", FALSE)
    IN IF Get(pol, "require_logging", FALSE) /\ ~(log_start \/ log_end)
       THEN [st EXCEPT !.warnings = Append(@, SecMsg(rule_name, "Logging is not enabled", <<>>, "WARNING"))]
       ELSE st

\* SecurityPolicyValidator._check_description
check_description(pol, st, rule, rule_name) ==
    LET description == Get(rule, "description", <<>>)
    IN IF Get(pol, "require_description", FALSE)
          /\ (description = <<>> \/ Len(Strip(description)) < 10)
       THEN [st EXCEPT !.warnings = Append(@, SecMsg(rule_name, "meaningful description", <<>>, "WARNING"))]
       ELSE st

\* SecurityPolicyValidator._check_metadata
check_metadata(pol, st, rule, rule_name) ==
    LET metadata == Get(rule, "metadata", [keys |-> {}])
    IN IF Get(pol, "require_ticket_id", FALSE) /\ Get(metadata, "ticket_id", <<>>) = <<>>
       THEN [st EXCEPT !.warnings = Append(@, SecMsg(rule_name, "ticket_id in metadata", <<>>, "WARNING"))]
       ELSE st

\* SecurityPolicyValidator._check_address_limits; the message quotes the count
check_address_limits(pol, st, rule, rule_name) ==
    LET max_addresses == Get(pol, "max_addresses_per_rule", 50)
        source_count == Len(Get(rule, "source_address", <<>>))
        dest_count == Len(Get(rule, "destination_address", <<>>))
        s1 == IF source_count > max_addresses
              THEN [st EXCEPT !.warnings = Append(@, [SecMsg(rule_name, "source addresses", <<>>, "WARNING") EXCEPT !.arg = source_count])]
              ELSE st
        s2 == IF dest_count > max_addresses
              THEN [s1 EXCEPT !.warnings = Append(@, [SecMsg(rule_name, "destination addresses", <<>>, "WARNING") EXCEPT !.arg = dest_count])]
              ELSE s1
    IN s2

\* SecurityPolicyValidator.validate_rule: the lists after the call and the
\* returned value in `ret`
sec_validate_rule(pol, st, rule) ==
    LET rule_name == Get(rule, "rule_name", S_Unknown)
        action == Lower(Get(rule, "action", <<>>))
        s1 == check_any_usage(st, rule, rule_name, action)
        s2 == check_source_addresses(pol, s1, rule, rule_name, action)
        s3 == check_high_risk_ports(pol, s2, rule, rule_name, action)
        s4 == check_zone_policies(pol, s3, rule, rule_name, action)
        s5 == check_restricted_applications(pol, s4, rule, rule_name, action)
        s6 == check_logging(pol, s5, rule, rule_name)
        s7 == check_description(pol, s6, rule, rule_name)
        s8 == check_metadata(pol, s7, rule, rule_name)
        s9 == check_address_limits(pol, s8, rule, rule_name)
    IN [errors |-> s9.errors, warnings |-> s9.warnings, ret |-> (Len(s9.errors) = 0)]

(***************************************************************************)
(* Inputs: address tokens, rule records, configurations                    *)
(***************************************************************************)
Alphabet == {"a", "n", "y", "A", "1", ".", ":", "/", "-", " ", "%", "\n"}

A_10_0_0_5 == <<"1","0",".","0",".","0",".","5">>
A_8_8_8_8 == <<"8",".","8",".","8",".","8">>
A_10_0_0_0_8 == <<"1","0",".","0",".","0",".","0","/","8">>
A_192_168_1_0_24 == <<"1","9","2",".","1","6","8",".","1",".","0","/","2","4">>
A_172_16_0_0_16 == <<"1","7","2",".","1","6",".","0",".","0","/","1","6">>
A_10_1_0_0_15 == <<"1","0",".","1",".","0",".","0","/","1","5">>
A_10_0_0_5_mask == <<"1","0",".","0",".","0",".","5","/","2","5","5",".","0",".","0",".","0">>
A_fe80_1 == <<"f","e","8","0",":",":","1">>
A_2001_db8_32 == <<"2","0","0","1",":","d","b","8",":",":","/","3","2">>
A_v6_mapped == <<":",":","f","f","f","f",":","1","0",".","0",".","0",".","5">>
A_web_server == <<"w","e","b","-","s","e","r","v","e","r">>
A_DB_Servers_1 == <<"D","B","_","S","e","r","v","e","r","s","_","1">>
A_web_server_sp == <<"w","e","b"," ","s","e","r","v","e","r">>
A_star == <<"*">>
A_256_1_1_1 == <<"2","5","6",".","1",".","1",".","1">>
A_192_168_1 == <<"1","9","2",".","1","6","8",".","1">>
A_10_0_0_0_33 == <<"1","0",".","0",".","0",".","0","/","3","3">>
A_example_com == <<"e","x","a","m","p","l","e",".","c","o","m">>
S_ANY == <<"A","N","Y">>
S_None == <<"N","o","n","e">>

SampleTokens ==
    {S_any, S_none, S_ANY, S_None, A_0_0_0_0_0, A_255_255_255_255, A_v6_all,
     A_10_0_0_5, A_8_8_8_8, A_10_0_0_0_8, A_192_168_1_0_24, A_172_16_0_0_16,
     A_10_1_0_0_15, A_10_0_0_5_mask, A_fe80_1, A_2001_db8_32, A_v6_mapped,
     A_web_server, A_DB_Servers_1, A_web_server_sp, A_star, A_256_1_1_1,
     A_192_168_1, A_10_0_0_0_33, A_example_com}

\* every string over Alphabet of at most MaxTokLen characters, and the samples
Tokens == UNION {[1..n -> Alphabet] : n \in 0..MaxTokLen} \cup SampleTokens

S_Allow == <<"A","l","l","o","w">>
S_deny == <<"d","e","n","y">>
S_Trust == <<"T","r","u","s","t">>
S_Untrust == <<"U","n","t","r","u","s","t">>
S_guest == <<"g","u","e","s","t">>
S_tcp_80 == <<"t","c","p","-","8","0">>
S_TCP_22 == <<"T","C","P","-","2","2">>
S_tcp_99999 == <<"t","c","p","-","9","9","9","9","9">>
S_udp_53_20 == <<"u","d","p","-","5","3","-","2","0">>
S_tcp_70000_80 == <<"t","c","p","-","7","0","0","0","0","-","8","0">>
S_80_tcp == <<"8","0","/","t","c","p">>
S_Tor == <<"T","o","r">>
S_web_browsing == <<"w","e","b","-","b","r","o","w","s","i","n","g">>
S_Allow_Web == <<"A","l","l","o","w","-","W","e","b">>
S_short == <<" ","s","h","o","r","t"," "," "," "," "," ">>
S_Allow_web_traffic == <<"A","l","l","o","w"," ","w","e","b"," ","t","r","a","f","f","i","c">>
S_CHG0012345 == <<"C","H","G","0","0","1","2","3","4","5">>

RuleKeys == {"rule_name", "description", "source_zone", "destination_zone",
             "source_address", "destination_address", "application", "service",
             "action", "log_at_session_start", "log_at_session_end", "metadata"}

\* the scenario rule of the specification (Allow-Web), with description,
\* ticket id and both logging flags
BaseRule ==
    [keys |-> RuleKeys,
     rule_name |-> S_Allow_Web,
     description |-> S_Allow_web_traffic,
     source_zone |-> <<S_trust>>,
     destination_zone |-> <<S_untrust>>,
     source_address |-> <<A_10_0_0_5>>,
     destination_address |-> <<A_8_8_8_8>>,
     application |-> <<S_web_browsing>>,
     service |-> <<S_tcp_80>>,
     action |-> S_allow,
     log_at_session_start |-> TRUE,
     log_at_session_end |-> TRUE,
     metadata |-> [keys |-> {"ticket_id"}, ticket_id |-> S_CHG0012345]]

\* a dict with no key: also stands for the argument None of the constructors
NoRule == [BaseRule EXCEPT !.keys = {}]

\* address lists of the rule files
AddrLists ==
    {<<A_10_0_0_5>>, <<S_any>>, <<A_0_0_0_0_0>>, <<A_web_server>>, <<A_star>>,
     <<A_256_1_1_1, A_web_server>>, <<A_star, A_10_0_0_0_8, A_star>>,
     <<A_web_server_sp>>, <<A_v6_all, A_255_255_255_255>>, <<>>}

\* rule files read by the network validator: the base rule with one of its
\* address lists, zones or services replaced, or with keys missing
NetRules ==
    {[BaseRule EXCEPT !.source_address = l] : l \in AddrLists}
    \cup {[BaseRule EXCEPT !.destination_address = l] :
            l \in {<<S_any>>, <<A_star>>, <<A_0_0_0_0_0>>, <<A_web_server, A_192_168_1>>}}
    \cup {[BaseRule EXCEPT !.service = l] :
            l \in {<<S_tcp_99999>>, <<S_udp_53_20>>, <<S_tcp_70000_80, S_80_tcp>>, <<>>}}
    \cup {[BaseRule EXCEPT !.source_address = <<A_star>>, !.service = <<S_tcp_99999>>],
          [BaseRule EXCEPT !.source_zone = <<S_guest, S_Trust>>],
          [BaseRule EXCEPT !.destination_zone = <<S_ANY, S_guest, S_guest>>,
                           !.source_address = <<A_star>>],
          [BaseRule EXCEPT !.keys = @ \ {"source_address", "service"}],
          NoRule}

\* arguments of direct validate_addresses calls
DirectAddrLists ==
    {<<A_10_0_0_5>>, <<A_star>>, <<A_star, A_web_server, A_star>>,
     <<A_0_0_0_0_0, A_star>>, <<A_10_0_0_0_33, S_any, A_web_server>>}

\* arguments of direct validate_zones calls (one zone is the empty string,
\* one ends with a space)
S_trust_sp == <<"t","r","u","s","t"," ">>
DirectZoneLists ==
    {<<S_trust>>, <<S_Trust, S_guest>>, <<S_guest, S_ANY, S_guest>>,
     <<S_dmz, <<>> >>, <<S_trust_sp, S_Untrust>>}

\* config arguments of NetworkValidator(config): none, and custom dicts
\* (one without address_object_pattern)
NetConfigArgs ==
    {[NETWORK_CONFIG EXCEPT !.keys = {}],
     [keys |-> {"warn_addresses", "valid_zones"},
      warn_addresses |-> <<A_star, S_any, A_web_server, A_10_0_0_5>>,
      valid_zones |-> <<S_Trust, S_untrust>>,
      address_object_pattern |-> PAT_OBJECT]}

\* rule files read by the security validator: the base rule with the fields
\* of one check replaced
SecRules ==
    {[BaseRule EXCEPT !.action = a, !.source_address = sd[1], !.destination_address = sd[2]] :
        a \in {S_allow, S_Allow, S_deny},
        sd \in {<<(<<S_any>>), (<<S_any>>)>>, <<(<<S_any>>), (<<A_8_8_8_8>>)>>,
                <<(<<A_10_0_0_5, S_any>>), (<<S_any, A_8_8_8_8>>)>>,
                <<(<<A_10_0_0_5>>), (<<S_any>>)>>,
                <<(<<A_0_0_0_0_0>>), (<<S_any>>)>>,
                <<(<<A_0_0_0_0_0, A_10_0_0_5, A_0_0_0_0_0>>), (<<A_8_8_8_8>>)>>}}
    \cup {[BaseRule EXCEPT !.keys = (@ \ {"log_at_session_start", "log_at_session_end"}) \cup k,
                           !.log_at_session_start = b[1], !.log_at_session_end = b[2]] :
            k \in SUBSET {"log_at_session_start", "log_at_session_end"},
            b \in {<<FALSE, FALSE>>, <<TRUE, FALSE>>}}
    \cup {[BaseRule EXCEPT !.application = <<S_Tor, S_any>>, !.service = <<S_any, S_TCP_22>>],
          [BaseRule EXCEPT !.source_zone = <<S_untrust>>, !.destination_zone = <<S_Trust, S_dmz>>],
          [BaseRule EXCEPT !.source_zone = <<S_Untrust>>, !.destination_zone = <<S_trust>>],
          [BaseRule EXCEPT !.application = <<S_bittorrent, S_web_browsing, S_Tor>>],
          [BaseRule EXCEPT !.application = <<S_Tor>>, !.action = S_deny],
          [BaseRule EXCEPT !.source_zone = <<S_trust, S_external>>,
                           !.destination_zone = <<S_database, S_dmz, S_internal>>],
          [BaseRule EXCEPT !.source_zone = <<S_external>>, !.destination_zone = <<S_trust>>,
                           !.action = S_deny],
          [BaseRule EXCEPT !.description = S_short, !.metadata = [keys |-> {}, ticket_id |-> <<>>]],
          [BaseRule EXCEPT !.keys = @ \ {"action", "rule_name", "metadata", "description"}],
          BaseRule}

\* policies arguments of SecurityPolicyValidator(policies): none, and a
\* custom dict without the require_* flags
SecPolicyArgs ==
    {[SECURITY_POLICIES EXCEPT !.keys = {}],
     [SECURITY_POLICIES EXCEPT
        !.keys = {"prohibited_sources", "restricted_applications", "max_addresses_per_rule"},
        !.prohibited_sources = <<A_10_0_0_5, S_any>>,
        !.max_addresses_per_rule = 1]}

\* str(n) for n >= 0
RECURSIVE Str(_)
Str(n) == IF n < 10 THEN <<DigitChars[n + 1]>> ELSE Str(n \div 10) \o <<DigitChars[(n % 10) + 1]>>

\* port numbers written in service tokens; the end of a port range is <<>>
\* for a token with one port
PortValues == {0, 1, 80, 65535, 65536, 99999, 100000}
PortEnds == {<<>>} \cup {<<b>> : b \in PortValues}
ServiceProtos == {S_tcp, <<"U","D","P">>, S_sctp}

\* the token <proto>-<port> or <proto>-<start>-<end>
ServiceToken(proto, port_start, port_end) ==
    proto \o <<"-">> \o Str(port_start)
          \o (IF port_end = <<>> THEN <<>> ELSE <<"-">> \o Str(port_end[1]))

S_tcp_080 == <<"t","c","p","-","0","8","0">>
S_tcp_80_nl == <<"t","c","p","-","8","0","\n">>
S_tcp_dash == <<"t","c","p","-">>
S_icmp_8 == <<"i","c","m","p","-","8">>
S_tcp_0065536_1 == <<"t","c","p","-","0","0","6","5","5","3","6","-","1">>

\* service lists of the rule files: every proto-port token on its own, and
\* lists of several tokens, also ones that are no proto-port token
ServiceLists ==
    {<<ServiceToken(proto, a, b)>> :
        proto \in ServiceProtos, a \in PortValues, b \in PortEnds}
    \cup {<<S_tcp_99999, S_tcp_80, S_tcp_99999>>, <<S_udp_53_20, S_tcp_70000_80>>,
          <<S_80_tcp, S_tcp_080>>, <<S_tcp_80_nl>>, <<S_tcp_dash, S_icmp_8>>,
          <<S_any, S_application_default, S_web_browsing>>, <<S_tcp_0065536_1>>, <<>>}

\* rule files that differ from the scenario rule in their service list only
ServiceRules == {[BaseRule EXCEPT !.service = l] : l \in ServiceLists}

(***************************************************************************)
(* validate_schema.py                                                      *)
(***************************************************************************)
S_drop == <<"d","r","o","p">>
S_reset_client == <<"r","e","s","e","t","-","c","l","i","e","n","t">>
S_reset_server == <<"r","e","s","e","t","-","s","e","r","v","e","r">>
S_reset_both == <<"r","e","s","e","t","-","b","o","t","h">>

\* schemas/firewall-rule-schema.json, read by load_schema: the six required
\* fields, the four lists that are non-empty arrays, the six actions
FIREWALL_RULE_SCHEMA ==
    [required |-> <<"rule_name", "source_zone", "destination_zone",
                    "source_address", "destination_address", "action">>,
     minItems |-> <<"source_zone", "destination_zone",
                    "source_address", "destination_address">>,
     enum |-> {S_allow, S_deny, S_drop, S_reset_client, S_reset_server, S_reset_both}]

\* a parsed JSON document: an object (a rule record) or any other value
Document(rule) == [type |-> "object", rule |-> rule]
NotAnObject == [type |-> "array", rule |-> NoRule]

\* one jsonschema ValidationError: the keyword that failed, the
\* absolute_path of the instance (<<>> at the document root) and the field
\* the message names
ValidationError(keyword, absolute_path, field) ==
    [keyword |-> keyword, absolute_path |-> absolute_path, field |-> field]

\* the fields of `fields`, in order, that the record does not have
RECURSIVE MissingOf(_, _)
MissingOf(fields, rule) ==
    IF fields = <<>> THEN <<>>
    ELSE (IF Head(fields) \in rule.keys THEN <<>> ELSE <<Head(fields)>>)
         \o MissingOf(Tail(fields), rule)

\* the fields of `fields`, in order, that the record has as an empty list
RECURSIVE EmptyOf(_, _)
EmptyOf(fields, rule) ==
    IF fields = <<>> THEN <<>>
    ELSE (IF Head(fields) \in rule.keys /\ rule[Head(fields)] = <<>>
          THEN <<Head(fields)>> ELSE <<>>)
         \o EmptyOf(Tail(fields), rule)

\* Draft7Validator(schema).iter_errors(instance): every violation, none
\* stops the iteration; a document that is not an object violates `type`
\* at the root and nothing else
iter_errors(schema, instance) ==
    IF instance.type # "object"
    THEN <<ValidationError("type", <<>>, "")>>
    ELSE [k \in 1..Len(MissingOf(schema.required, instance.rule)) |->
             ValidationError("required", <<>>, MissingOf(schema.required, instance.rule)[k])]
         \o [k \in 1..Len(EmptyOf(schema.minItems, instance.rule)) |->
             ValidationError("minItems", <<EmptyOf(schema.minItems, instance.rule)[k]>>,
                             EmptyOf(schema.minItems, instance.rule)[k])]
         \o (IF "action" \in instance.rule.keys /\ instance.rule.action \notin schema.enum
             THEN <<ValidationError("enum", <<"action">>, "action")>>
             ELSE <<>>)

\* error_path of validate_rule: the absolute path joined, "root" when empty
ErrorPath(absolute_path) ==
    IF absolute_path = <<>> THEN "root" ELSE absolute_path[1]

\* validate_rule(rule_data, schema, rule_file) of validate_schema.py
schema_validate_rule(rule_data, schema, file_name) ==
    [k \in 1..Len(iter_errors(schema, rule_data)) |->
        [file |-> file_name,
         path |-> ErrorPath(iter_errors(schema, rule_data)[k].absolute_path),
         message |-> iter_errors(schema, rule_data)[k].keyword,
         field |-> iter_errors(schema, rule_data)[k].field]]

\* a rule file of the batch: its name, what load_rule does with it
\* ("json_error": raises JSONDecodeError, "exception": load_rule or
\* validate_rule raises anything else, "document": returns doc)
RuleFile(name, load, doc) == [name |-> name, load |-> load, doc |-> doc]

\* sorted(rule_files): the files by name
RECURSIVE sorted(_)
sorted(files) ==
    IF files = <<>> THEN <<>>
    ELSE LET least == CHOOSE i \in 1..Len(files) :
                          \A j \in 1..Len(files) : files[i].name <= files[j].name
         IN  <<files[least]>>
             \o sorted([k \in 1..(Len(files) - 1) |->
                           IF k < least THEN files[k] ELSE files[k + 1]])

\* the error the two except clauses of validate_rules append
RootError(file_name, message) ==
    [file |-> file_name, path |-> "root", message |-> message, field |-> ""]

\* the locals of validate_rules: the sorted files, the position of the loop
\* (pc "idle" before the call, "loop" inside it, "done" after the return)
NoBatch ==
    [pc |-> "idle", files |-> <<>>, pos |-> 1, all_errors |-> <<>>,
     validated_count |-> 0, failed_count |-> 0, ret |-> TRUE]

\* validate_rules up to the loop: no file, return True
validate_rules_start(files) ==
    IF files = <<>>
    THEN [NoBatch EXCEPT !.pc = "done", !.ret = TRUE]
    ELSE [NoBatch EXCEPT !.pc = "loop", !.files = sorted(files)]

\* the try branch of the loop body once the file is loaded
validate_rules_checked(b, errors) ==
    IF errors # <<>>
    THEN [b EXCEPT !.failed_count = @ + 1, !.all_errors = @ \o errors, !.pos = @ + 1]
    ELSE [b EXCEPT !.validated_count = @ + 1, !.pos = @ + 1]

\* the loop body with an exception that ends the run
validate_rules_file_abort(b, file, schema) ==
    IF file.load = "json_error"
    THEN [b EXCEPT !.failed_count = @ + 1, !.pos = @ + 1,
                   !.all_errors = Append(@, RootError(file.name, "Invalid JSON"))]
    ELSE IF file.load = "exception"
    THEN [b EXCEPT !.pc = "done", !.ret = FALSE]
    ELSE validate_rules_checked(b, schema_validate_rule(file.doc, schema, file.name))

\* the loop body of validate_rules for one file
validate_rules_file(b, file, schema) ==
    IF file.load = "json_error"
    THEN [b EXCEPT !.failed_count = @ + 1, !.pos = @ + 1,
                   !.all_errors = Append(@, RootError(file.name, "Invalid JSON"))]
    ELSE IF file.load = "exception"
    THEN [b EXCEPT !.failed_count = @ + 1, !.pos = @ + 1,
                   !.all_errors = Append(@, RootError(file.name, "str(e)"))]
    ELSE validate_rules_checked(b, schema_validate_rule(file.doc, schema, file.name))

\* validate_rules after the loop: the summary and the return value
validate_rules_return(b) ==
    [b EXCEPT !.pc = "done", !.ret = (b.all_errors = <<>>)]

(***************************************************************************)
(* dry_run.py                                                              *)
(***************************************************************************)
required_fields ==
    <<"rule_name", "source_zone", "destination_zone",
      "source_address", "destination_address", "action">>

\* the three simulate_api_call requests of simulate_deployment
DryRunCalls(rule) ==
    <<[endpoint |-> "op", payload |-> NoRule],
      [endpoint |-> "config-set",
       payload |-> [name |-> rule.rule_name,
                    from |-> rule.source_zone,
                    to |-> rule.destination_zone,
                    source |-> rule.source_address,
                    destination |-> rule.destination_address,
                    application |-> Get(rule, "application", <<S_any>>),
                    service |-> Get(rule, "service", <<S_application_default>>),
                    action |-> rule.action,
                    log_start |-> Get(rule, "log_at_session_start", TRUE),
                    log_end |-> Get(rule, "log_at_session_end", TRUE)]],
      [endpoint |-> "commit", payload |-> NoRule]>>

NoDryRun == [done |-> FALSE, ret |-> FALSE, api_calls |-> <<>>]

\* simulate_deployment without the action among the required fields
simulate_deployment_no_action(rule) ==
    IF MissingOf(SubSeq(required_fields, 1, 5), rule) # <<>>
    THEN [done |-> TRUE, ret |-> FALSE, api_calls |-> <<>>]
    ELSE [done |-> TRUE, ret |-> TRUE, api_calls |-> DryRunCalls(rule)]

\* simulate_deployment(rule_file) on a file that loads as the record `rule`
simulate_deployment(rule) ==
    IF MissingOf(required_fields, rule) # <<>>
    THEN [done |-> TRUE, ret |-> FALSE, api_calls |-> <<>>]
    ELSE [done |-> TRUE, ret |-> TRUE, api_calls |-> DryRunCalls(rule)]

(***************************************************************************)
(* deploy_rule.py                                                          *)
(***************************************************************************)
\* PaloAltoAPI._escape_xml
EscapeChar(c) ==
    CASE c = "&" -> <<"&","a","m","p",";">>
      [] c = "<" -> <<"&","l","t",";">>
      [] c = ">" -> <<"&","g","t",";">>
      [] c = "\"" -> <<"&","q","u","o","t",";">>
      [] c = "'" -> <<"&","a","p","o","s",";">>
      [] OTHER -> <<c>>

RECURSIVE escape_xml(_)
escape_xml(text) ==
    IF text = <<>> THEN <<>> ELSE EscapeChar(Head(text)) \o escape_xml(Tail(text))

\* PaloAltoAPI._build_member_element: the members of <name>...</name>
build_member_element(values) ==
    [k \in 1..Len(IF values = <<>> THEN <<S_any>> ELSE values) |->
        escape_xml((IF values = <<>> THEN <<S_any>> ELSE values)[k])]

\* PaloAltoAPI._build_rule_element: the elements that carry the match
\* criteria, the action and the logging of the rule
build_rule_element(rule) ==
    [from |-> build_member_element(Get(rule, "source_zone", <<S_any>>)),
     to |-> build_member_element(Get(rule, "destination_zone", <<S_any>>)),
     source |-> build_member_element(Get(rule, "source_address", <<S_any>>)),
     destination |-> build_member_element(Get(rule, "destination_address", <<S_any>>)),
     application |-> build_member_element(Get(rule, "application", <<S_any>>)),
     service |-> build_member_element(Get(rule, "service", <<S_application_default>>)),
     action |-> Get(rule, "action", S_deny),
     log_start |-> Get(rule, "log_at_session_start", TRUE),
     log_end |-> Get(rule, "log_at_session_end", TRUE)]

\* no deploy_rule call yet; `sent` says that create_security_rule built
\* the set request for the rule and handed it to _make_request
NoDeploy == [done |-> FALSE, ret |-> FALSE, sent |-> FALSE, name |-> <<>>, element |-> <<>>]

\* deploy_rule(rule_file, dry_run) on a file that loads as the record
\* `rule`; credentials: the environment names the firewall and a key or a
\* login; set_ok, commit_ok: what the firewall answers to the set request
\* and to the commit
deploy_rule(rule, dry_run, credentials, set_ok, commit_ok) ==
    IF dry_run
    THEN [NoDeploy EXCEPT !.done = TRUE, !.ret = TRUE]
    ELSE IF ~credentials
    THEN [NoDeploy EXCEPT !.done = TRUE]
    ELSE IF "rule_name" \notin rule.keys
    THEN [NoDeploy EXCEPT !.done = TRUE]
    ELSE [done |-> TRUE, ret |-> set_ok /\ commit_ok, sent |-> TRUE,
          name |-> rule.rule_name, element |-> build_rule_element(rule)]

(***************************************************************************)
(* validate_network.py: validate_all_rules                                 *)
(***************************************************************************)
\* the locals of validate_all_rules: the sorted files, the position of the
\* loop (pc "idle" before the call, "loop" inside it, "done" after the
\* return), all_valid and the two total lists
NoNetRun ==
    [pc |-> "idle", files |-> <<>>, pos |-> 1, all_valid |-> TRUE,
     total_errors |-> <<>>, total_warnings |-> <<>>, ret |-> TRUE]

\* validate_all_rules up to the loop: no file, return True
net_run_start(files) ==
    IF files = <<>>
    THEN [NoNetRun EXCEPT !.pc = "done", !.ret = TRUE]
    ELSE [NoNetRun EXCEPT !.pc = "loop", !.files = sorted(files)]

\* f"[{rule_name}] {message}" for every message of the list
Prefixed(rule_name, messages) ==
    [k \in 1..Len(messages) |-> [rule |-> rule_name, message |-> messages[k]]]

\* what load and validate_rule do with the file on the reset validator:
\* raised is TRUE when json.load raises or the document has no get()
net_run_validated(cfg, file) ==
    IF file.load = "document" /\ file.doc.type = "object"
    THEN validate_rule(cfg, [errors |-> <<>>, warnings |-> <<>>, info |-> <<>>, valid |-> TRUE],
                       file.doc.rule) @@ [raised |-> FALSE]
    ELSE [errors |-> <<>>, warnings |-> <<>>, info |-> <<>>, valid |-> FALSE, raised |-> TRUE]

\* the loop body of validate_all_rules for one file, st being what the
\* validator holds after the file
net_run_file(r, file, st) ==
    IF st.raised
    THEN [r EXCEPT !.pos = @ + 1, !.all_valid = FALSE,
                   !.total_errors = Append(@, [rule |-> file.name, message |-> file.load])]
    ELSE [r EXCEPT !.pos = @ + 1,
                   !.all_valid = @ /\ st.valid,
                   !.total_errors = @ \o Prefixed(Get(file.doc.rule, "rule_name", S_Unknown), st.errors),
                   !.total_warnings = @ \o Prefixed(Get(file.doc.rule, "rule_name", S_Unknown), st.warnings)]

\* validate_all_rules after the loop: the summary and the return value
net_run_return(r) == [r EXCEPT !.pc = "done", !.ret = r.all_valid]

(***************************************************************************)
(* self-service-portal/app.py: the request store and its handlers          *)
(***************************************************************************)
MaxThreads == 2
\* the threads of the server: each serves one submitted form and then runs
\* the provisioning thread the handler starts for the request it created
Threads == 1..MaxThreads


\* the locals of one thread: its position, the service of the form, the
\* value of request_counter on the stack of `request_counter += 1`, and
\* the functions the provisioning has called
NoThread ==
    [pc |-> "idle", service_id |-> "", git_enabled |-> FALSE, tmp |-> 0, called |-> {}]

\* service_requests = [] and request_counter = 1000
NoPortal ==
    [request_counter |-> 1000, service_requests |-> <<>>,
     threads |-> [t \in Threads |-> NoThread]]

\* f'SR-{request_counter}'
RequestId(counter) == <<"SR-", counter>>

\* submit_request up to the load of `request_counter += 1`: the service of
\* the catalog, the form, and the value of the global on the stack
submit_request(p, t, service_id, git_enabled) ==
    [p EXCEPT !.threads[t] = [@ EXCEPT !.pc = "store", !.service_id = service_id,
                                       !.git_enabled = git_enabled,
                                       !.tmp = p.request_counter]]

\* the store of `request_counter += 1`
request_counter_store(p, t) ==
    [p EXCEPT !.request_counter = p.threads[t].tmp + 1, !.threads[t].pc = "create"]

\* the request as the handlers build it, ref being the identity of the dict
\* the provisioning thread is given
service_request(p, t) ==
    [ref |-> t, id |-> RequestId(p.request_counter),
     service_id |-> p.threads[t].service_id, status |-> "Pending",
     git_enabled |-> p.threads[t].git_enabled]

\* the dict, service_requests.insert(0, service_request) and thread.start()
service_requests_insert(p, t) ==
    [p EXCEPT !.service_requests = <<service_request(p, t)>> \o @,
              !.threads[t].tmp = 0,
              !.threads[t].pc = IF p.threads[t].service_id = "palo_alto_firewall_rule"
                                THEN "generate" ELSE "provision"]

\* service_request['status'] = status on the dict of thread t
set_status(p, t, status) ==
    [p EXCEPT !.service_requests =
        [k \in 1..Len(@) |-> IF @[k].ref = t THEN [@[k] EXCEPT !.status = status] ELSE @[k]]]

\* the request of thread t in the store
RequestOf(p, t) ==
    p.service_requests[CHOOSE k \in 1..Len(p.service_requests) : p.service_requests[k].ref = t]

\* execute_provisioning up to the playbook run
execute_provisioning(p, t, playbook) ==
    IF playbook
    THEN [set_status(p, t, "Running") EXCEPT !.threads[t].pc = "run"]
    ELSE [set_status(p, t, "Failed") EXCEPT !.threads[t].pc = "done"]

\* execute_provisioning: the playbook run and the status it ends with
execute_provisioning_run(p, t, outcome) ==
    [set_status(p, t, CASE outcome = "ok" -> "Completed"
                        [] outcome = "timeout" -> "Timeout"
                        [] OTHER -> "Failed")
        EXCEPT !.threads[t].pc = "done"]

(***************************************************************************)
(* self-service-portal/app.py: execute_firewall_rule_provisioning          *)
(***************************************************************************)
\* step 1, the status before the rule is generated
provisioning_generate(p, t) ==
    [set_status(p, t, "Generating Rule") EXCEPT !.threads[t].pc = "write"]

\* step 1 and the head of steps 2 and 3: the rule JSON written (or an
\* exception on the way), then the Git branch or the direct deployment
provisioning_write(p, t, written) ==
    IF ~written
    THEN [set_status(p, t, "Failed") EXCEPT !.threads[t].pc = "done"]
    ELSE IF p.threads[t].git_enabled
    THEN [set_status(p, t, "Committing to Git")
             EXCEPT !.threads[t].pc = "remote",
                    !.threads[t].called = @ \cup {"commit_rule_to_git"}]
    ELSE [set_status(p, t, "Deploying to Firewall")
             EXCEPT !.threads[t].pc = "ansible",
                    !.threads[t].called = @ \cup {"execute_ansible_deployment"}]

\* the variant of provisioning_git_returned that deploys directly whatever
\* commit_rule_to_git returned
provisioning_git_returned_always_deploy(p, t, git_success) ==
    [set_status(p, t, "Deploying to Firewall")
        EXCEPT !.threads[t].pc = "ansible",
               !.threads[t].called = @ \cup {"execute_ansible_deployment"}]

\* steps 2 and 3 after commit_rule_to_git returned git_success
provisioning_git_returned(p, t, git_success) ==
    IF git_success
    THEN [set_status(p, t, "Completed - Pending CI/CD") EXCEPT !.threads[t].pc = "done"]
    ELSE [set_status(p, t, "Deploying to Firewall")
             EXCEPT !.threads[t].pc = "ansible",
                    !.threads[t].called = @ \cup {"execute_ansible_deployment"}]

\* execute_ansible_deployment: the status every path of it sets
execute_ansible_deployment(p, t, outcome) ==
    [set_status(p, t, CASE outcome = "ok" -> "Completed"
                        [] outcome = "timeout" -> "Timeout"
                        [] OTHER -> "Failed")
        EXCEPT !.threads[t].pc = "done"]

(***************************************************************************)
(* self-service-portal/app.py: commit_rule_to_git                          *)
(***************************************************************************)
\* URLs are sequences of the parts the code looks for: "https://", "git@",
\* "github.com", ":", "/", ".git", the path and the "user:token@" of the
\* environment
\* s.startswith(prefix)
startswith(s, prefix) ==
    Len(s) >= Len(prefix) /\ SubSeq(s, 1, Len(prefix)) = prefix

\* old in s
str_in(old, s) ==
    \E i \in 1..(Len(s) - Len(old) + 1) : SubSeq(s, i, i + Len(old) - 1) = old

\* s.replace(old, new), left to right
RECURSIVE str_replace(_, _, _)
str_replace(s, old, new) ==
    IF s = <<>> THEN <<>>
    ELSE IF startswith(s, old)
    THEN new \o str_replace(SubSeq(s, Len(old) + 1, Len(s)), old, new)
    ELSE <<s[1]>> \o str_replace(Tail(s), old, new)

\* the URL with the credentials of the environment, as lines 521-532 build it
auth_url(original_remote_url) ==
    IF startswith(original_remote_url, <<"https://">>)
    THEN str_replace(original_remote_url, <<"https://", "github.com">>,
                     <<"https://", "user:token@", "github.com">>)
    ELSE IF startswith(original_remote_url, <<"git@">>)
    THEN <<"https://", "user:token@", "github.com", "/">>
         \o str_replace(str_replace(original_remote_url, <<"git@", "github.com", ":">>, <<>>),
                        <<".git">>, <<>>)
         \o <<".git">>
    ELSE original_remote_url

\* the locals of one commit_rule_to_git call
NoGitCall ==
    [original_remote_url |-> <<>>, url_changed |-> FALSE, ret |-> FALSE]

\* the repository: the URL of the remote origin in its configuration, the
\* URL it was cloned from, the requests whose branch the remote received,
\* and the locals of the calls
NoRepo ==
    [origin |-> <<"https://", "github.com", "/", "org/repo", ".git">>,
     cloned_from |-> <<"https://", "github.com", "/", "org/repo", ".git">>,
     pushed |-> {}, calls |-> [t \in Threads |-> NoGitCall]]

\* lines 505-516: `git remote get-url origin` answered url
git_get_url(g, t, url) ==
    [g EXCEPT !.calls[t] = [NoGitCall EXCEPT !.original_remote_url = url]]

\* whether lines 519-537 set the URL of the remote
sets_url(g, t, credentials) ==
    credentials /\ str_in(<<"github.com">>, g.calls[t].original_remote_url)

\* lines 535-537: `git remote set-url origin auth_url`
git_set_url(g, t) ==
    [g EXCEPT !.origin = auth_url(g.calls[t].original_remote_url),
              !.calls[t].url_changed = TRUE]

\* lines 540-591: fetch, branch, add, commit and push; a failed checkout,
\* add or commit raises CalledProcessError, a failed push returns
git_commit_push(g, t, outcome) ==
    [g EXCEPT !.pushed = IF outcome = "pushed" THEN @ \cup {t} ELSE @,
              !.calls[t].ret = (outcome = "pushed")]

\* lines 594-596, 623-625 and 637-639: the URL put back; the locals end
\* with the call
git_restore(g, t) ==
    [g EXCEPT !.origin = IF g.calls[t].url_changed
                         THEN g.calls[t].original_remote_url ELSE @,
              !.calls[t] = NoGitCall]


(***************************************************************************)
(* deploy_rule.py: PaloAltoAPI.wait_for_commit                             *)
(***************************************************************************)
\* the <job> element of the answer to show jobs id; has_job, has_status and
\* has_result say which elements the answer holds
JobXml(has_job, status, result) ==
    [has_job |-> has_job, status |-> status, result |-> result]

\* PaloAltoAPI.get_commit_status: the dict parsed from the answer ("" is
\* an element that is absent; "none" a key that the dict does not have)
get_commit_status(xml) ==
    [status |-> IF xml.has_job /\ xml.status # "" THEN xml.status ELSE "unknown",
     result |-> IF xml.has_job /\ xml.result # "" THEN xml.result ELSE "none"]

\* a wait_for_commit call: pc is "idle" before the call, "test" at the
\* while condition, "poll" before get_commit_status, "sleep" before
\* time.sleep, "done" after the return; now is time.time(); seen are the
\* dicts get_commit_status returned; progress is how far the job is
NoCommitJob ==
    [pc |-> "idle", timeout |-> 0, poll_interval |-> 0, start_time |-> 0, now |-> 0,
     seen |-> <<>>, progress |-> 0, ret |-> FALSE, message |-> ""]

\* start_time = time.time()
wait_for_commit_start(w, timeout, poll_interval) ==
    [w EXCEPT !.pc = "test", !.timeout = timeout, !.poll_interval = poll_interval,
              !.start_time = w.now]

\* the while condition with <= in the place of <
wait_for_commit_test_inclusive(w) ==
    IF w.now - w.start_time <= w.timeout
    THEN [w EXCEPT !.pc = "poll"]
    ELSE [w EXCEPT !.pc = "done", !.ret = FALSE, !.message = "Commit timed out"]

\* while time.time() - start_time < timeout, else the return after the loop
wait_for_commit_test(w) ==
    IF w.now - w.start_time < w.timeout
    THEN [w EXCEPT !.pc = "poll"]
    ELSE [w EXCEPT !.pc = "done", !.ret = FALSE, !.message = "Commit timed out"]

\* the loop body with any finished job taken for a successful one
wait_for_commit_polled_any_fin(w, status) ==
    IF status.status = "FIN"
    THEN [w EXCEPT !.pc = "done", !.seen = Append(@, status),
                   !.ret = TRUE, !.message = "Commit successful"]
    ELSE [w EXCEPT !.pc = "sleep", !.seen = Append(@, status)]

\* the loop body once get_commit_status has returned status
wait_for_commit_polled(w, status) ==
    IF status.status = "FIN"
    THEN IF status.result = "OK"
         THEN [w EXCEPT !.pc = "done", !.seen = Append(@, status),
                        !.ret = TRUE, !.message = "Commit successful"]
         ELSE [w EXCEPT !.pc = "done", !.seen = Append(@, status),
                        !.ret = FALSE, !.message = "Commit failed"]
    ELSE [w EXCEPT !.pc = "sleep", !.seen = Append(@, status)]

\* time.sleep(poll_interval): back to the while condition, slept later
wait_for_commit_slept(w, slept) ==
    [w EXCEPT !.pc = "test", !.now = @ + slept]

(***************************************************************************)
(* deploy_rule.py: deploy_rule, step by step                               *)
(***************************************************************************)
\* a deploy_rule call: pc is "idle" before the call, then the step that
\* comes next ("credentials", "connect", "set", "commit", "wait"), "done"
\* after the return; requests are the API requests sent so far, in order;
\* set_status and commit_status are the status of the parsed answers
\* ("none": no answer); wait is how wait_for_commit ended
NoDeployment ==
    [pc |-> "idle", dry_run |-> FALSE, loaded |-> FALSE, credentials_read |-> FALSE,
     api_key |-> FALSE, requests |-> <<>>, element |-> <<>>, set_status |-> "none", commit_status |-> "none",
     job_id |-> FALSE, wait |-> "none", ret |-> FALSE, successful |-> FALSE]

\* return False
deploy_failed(d) == [d EXCEPT !.pc = "done", !.ret = FALSE]

\* print DEPLOYMENT SUCCESSFUL, return True
deploy_successful(d) == [d EXCEPT !.pc = "done", !.ret = TRUE, !.successful = TRUE]

\* the dry-run branch taken before the rule file is loaded
deploy_load_dry_first(d, dry_run, loaded) ==
    IF dry_run THEN [d EXCEPT !.pc = "done", !.dry_run = TRUE, !.loaded = loaded, !.ret = TRUE]
    ELSE IF ~loaded THEN deploy_failed([d EXCEPT !.dry_run = dry_run])
    ELSE [d EXCEPT !.pc = "credentials", !.dry_run = FALSE, !.loaded = TRUE]

\* load_rule_file and the dry-run branch
deploy_load(d, dry_run, loaded) ==
    IF ~loaded THEN deploy_failed([d EXCEPT !.dry_run = dry_run])
    ELSE IF dry_run THEN [d EXCEPT !.pc = "done", !.dry_run = TRUE, !.loaded = TRUE, !.ret = TRUE]
    ELSE [d EXCEPT !.pc = "credentials", !.dry_run = FALSE, !.loaded = TRUE]

\* the credentials of the environment: PA_FIREWALL_IP, PA_API_KEY,
\* PA_USERNAME and PA_PASSWORD
deploy_credentials(d, firewall_ip, api_key, login) ==
    IF ~firewall_ip \/ (~api_key /\ ~login)
    THEN deploy_failed([d EXCEPT !.credentials_read = TRUE])
    ELSE [d EXCEPT !.pc = "connect", !.credentials_read = TRUE, !.api_key = api_key]

\* PaloAltoAPI(...) with its keygen request when there is no API key,
\* get_system_info and check_rule_exists; an exception of the last two is
\* caught where it is raised
deploy_connect(d, api_key, keygen_ok) ==
    IF ~api_key /\ ~keygen_ok
    THEN deploy_failed([d EXCEPT !.requests = Append(@, "keygen")])
    ELSE [d EXCEPT !.pc = "set",
                   !.requests = @ \o (IF api_key THEN <<>> ELSE <<"keygen">>) \o <<"op", "get">>]

\* create_security_rule with an answer whose status is not looked at
deploy_set_any_status(d, rule, answer) ==
    IF "rule_name" \notin rule.keys THEN deploy_failed(d)
    ELSE IF answer # "raise"
    THEN [d EXCEPT !.pc = "commit", !.requests = Append(@, "set"),
                   !.element = build_rule_element(rule), !.set_status = answer]
    ELSE deploy_failed([d EXCEPT !.requests = Append(@, "set"),
                                 !.element = build_rule_element(rule), !.set_status = answer])

\* api.create_security_rule(rule): KeyError without a rule_name, else the
\* set request; answer is the status of the answer, or "raise"
deploy_set(d, rule, answer) ==
    IF "rule_name" \notin rule.keys THEN deploy_failed(d)
    ELSE IF answer = "success"
    THEN [d EXCEPT !.pc = "commit", !.requests = Append(@, "set"),
                   !.element = build_rule_element(rule), !.set_status = answer]
    ELSE deploy_failed([d EXCEPT !.requests = Append(@, "set"),
                                 !.element = build_rule_element(rule), !.set_status = answer])

\* api.commit(description): answer is the status of the answer, or
\* "raise"; a status other than success is only printed as a warning;
\* job_id says that the answer holds a <job> element
deploy_commit(d, answer, job_id) ==
    IF answer = "raise"
    THEN deploy_failed([d EXCEPT !.requests = Append(@, "commit"), !.commit_status = answer])
    ELSE IF job_id
    THEN [d EXCEPT !.pc = "wait", !.requests = Append(@, "commit"),
                   !.commit_status = answer, !.job_id = TRUE]
    ELSE deploy_successful([d EXCEPT !.requests = Append(@, "commit"), !.commit_status = answer])

\* api.wait_for_commit(job_id) after `polls` show-jobs requests: "ok" is
\* (True, 'Commit successful'), "failed" and "timed out" are the two
\* (False, ...) results, "raise" is a poll that raised
deploy_wait(d, outcome, polls) ==
    IF outcome = "ok"
    THEN deploy_successful([d EXCEPT !.requests = @ \o [k \in 1..polls |-> "jobs"], !.wait = outcome])
    ELSE deploy_failed([d EXCEPT !.requests = @ \o [k \in 1..polls |-> "jobs"], !.wait = outcome])

(***************************************************************************)
(* Inputs: rule files of the schema check, the dry run and the deployment  *)
(***************************************************************************)
MaxFiles == 3

S_Bad_Name == <<"B","a","d"," ","N","a","m","e">>
S_Bad_Tab == <<"B","a","d","\t","N","a","m","e">>
S_permit == <<"p","e","r","m","i","t">>
S_R_and_D == <<"R","&","D","<","1",">">>

\* the base rule without the key `field`
Without(rule, field) == [rule EXCEPT !.keys = @ \ {field}]

\* the base rule, the rule without one or two of its required fields, with
\* one or two empty lists, with a name that holds whitespace, with an
\* action outside the enumeration
PipeRules ==
    {BaseRule}
    \cup {Without(BaseRule, required_fields[k]) : k \in 1..6}
    \cup {Without(Without(BaseRule, "rule_name"), "action"),
          Without(Without(BaseRule, "service"), "application"),
          [BaseRule EXCEPT !.source_zone = <<>>],
          [BaseRule EXCEPT !.destination_zone = <<>>],
          [BaseRule EXCEPT !.source_address = <<>>],
          [BaseRule EXCEPT !.destination_address = <<>>],
          [BaseRule EXCEPT !.source_zone = <<>>, !.destination_address = <<>>],
          [Without(BaseRule, "action") EXCEPT !.source_address = <<>>],
          [BaseRule EXCEPT !.rule_name = S_Bad_Name],
          [BaseRule EXCEPT !.rule_name = S_Bad_Tab],
          [BaseRule EXCEPT !.rule_name = S_R_and_D, !.destination_zone = <<S_R_and_D>>],
          [BaseRule EXCEPT !.action = S_permit],
          [BaseRule EXCEPT !.action = S_Allow],
          [BaseRule EXCEPT !.action = S_reset_both]}

\* what a file of the batch can be
FileContents ==
    {[load |-> "json_error", doc |-> NotAnObject],
     [load |-> "exception", doc |-> NotAnObject],
     [load |-> "document", doc |-> NotAnObject],
     [load |-> "document", doc |-> Document(BaseRule)],
     [load |-> "document", doc |-> Document([Without(BaseRule, "action") EXCEPT !.source_zone = <<>>])]}

\* the rule files found, in the order the directory lists them: up to
\* MaxFiles files with distinct names
FileLists ==
    UNION {{[k \in 1..n |-> RuleFile(order[k], content[k].load, content[k].doc)] :
               order \in {f \in [1..n -> 1..n] : \A i, j \in 1..n : f[i] = f[j] => i = j},
               content \in [1..n -> FileContents]} : n \in 0..MaxFiles}

\* what a file of the network batch can be: not JSON, not readable, not
\* an object, the base rule, a rule with a port above 65535, a rule with an
\* invalid address, a rule with an unknown zone
NetFileContents ==
    {[load |-> "json_error", doc |-> NotAnObject],
     [load |-> "exception", doc |-> NotAnObject],
     [load |-> "document", doc |-> NotAnObject],
     [load |-> "document", doc |-> Document(BaseRule)],
     [load |-> "document", doc |-> Document([BaseRule EXCEPT !.service = <<S_tcp_99999>>])],
     [load |-> "document", doc |-> Document([BaseRule EXCEPT !.source_address = <<A_256_1_1_1>>])],
     [load |-> "document", doc |-> Document([BaseRule EXCEPT !.source_zone = <<S_guest>>])]}

\* the rule files found, as the directory lists them: by name or in the
\* reverse order
NetFileLists ==
    UNION {{[k \in 1..n |-> RuleFile(IF up THEN k ELSE n + 1 - k, content[k].load, content[k].doc)] :
               up \in BOOLEAN, content \in [1..n -> NetFileContents]} : n \in 0..MaxFiles}

\* timeouts and poll intervals of wait_for_commit, in seconds
MaxTimeout == 4
MaxInterval == 2
Timeouts == (0 - 1)..MaxTimeout
PollIntervals == 1..MaxInterval

\* what the firewall can answer to show jobs id for a job that is pending
\* (progress 0), active (1) or finished (2)
JobAnswers(progress) ==
    IF progress = 0 THEN {JobXml(FALSE, "", ""), JobXml(TRUE, "", ""), JobXml(TRUE, "PEND", "")}
    ELSE IF progress = 1 THEN {JobXml(TRUE, "ACT", ""), JobXml(TRUE, "ACT", "PEND")}
    ELSE {JobXml(TRUE, "FIN", "OK"), JobXml(TRUE, "FIN", "FAIL"), JobXml(TRUE, "FIN", "")}

(***************************************************************************)
(* State                                                                   *)
(***************************************************************************)
VARIABLES
    address,        \* argument of the is_valid_ip_or_network call
    result,         \* what it returned, <<>> before the call
    config,         \* NetworkValidator.config
    errors,         \* NetworkValidator.errors
    warnings,       \* NetworkValidator.warnings
    info,           \* NetworkValidator.info
    ncall,          \* the last call on the NetworkValidator since reset()
    policies,       \* SecurityPolicyValidator.policies
    sec_errors,     \* SecurityPolicyValidator.errors
    sec_warnings,   \* SecurityPolicyValidator.warnings
    scall,          \* the last call on the SecurityPolicyValidator since reset()
    rule_file,      \* the rule file the scripts read
    schema_errors,  \* what validate_rule of validate_schema.py returned for it
    dry,            \* the dry run of the rule file
    deploy,         \* the deployment of the rule file
    rule_files,     \* the rule files validate_rules found
    batch,          \* the locals of validate_rules
    net_run,        \* the locals of validate_all_rules of validate_network.py
    commit_job,     \* a commit job of the firewall and the wait_for_commit call on it
    deployment,     \* a deploy_rule call, step by step, with the requests it sent
    portal,         \* the request store of the portal and its handler threads
    repo            \* the Git repository of the portal and the threads that commit to it

vars == <<address, result, config, errors, warnings, info, ncall,
          policies, sec_errors, sec_warnings, scall, rule_file,
          schema_errors, dry, deploy, rule_files, batch,
          net_run, commit_job, deployment, portal, repo>>
classify_vars == <<address, result>>
net_vars == <<config, errors, warnings, info, ncall>>
sec_vars == <<policies, sec_errors, sec_warnings, scall>>
pipe_vars == <<schema_errors, dry, deploy>>
batch_vars == <<rule_files, batch>>
ext_vars == <<net_run, commit_job, deployment, portal, repo>>

\* no call yet: n counts the calls since reset(); e0, w0, i0 are the
\* lengths of the lists when the last call started
NoCall ==
    [op |-> "none", rule |-> NoRule, addresses |-> <<>>, type |-> <<>>, services |-> <<>>,
     zones |-> <<>>,
     ret |-> TRUE, e0 |-> 0, w0 |-> 0, i0 |-> 0, n |-> 0]

\* NetworkValidator.__init__
NetNew(arg) ==
    /\ config = (IF arg.keys = {} THEN NETWORK_CONFIG ELSE arg)
    /\ errors = <<>>
    /\ warnings = <<>>
    /\ info = <<>>
    /\ ncall = NoCall

\* SecurityPolicyValidator.__init__
SecNew(arg) ==
    /\ policies = (IF arg.keys = {} THEN SECURITY_POLICIES ELSE arg)
    /\ sec_errors = <<>>
    /\ sec_warnings = <<>>
    /\ scall = NoCall

\* no schema check of the rule file yet
NoSchemaRun == [done |-> FALSE, errors |-> <<>>]

\* before the schema check, the dry run and the deployment of the rule file
PipeNew ==
    /\ schema_errors = NoSchemaRun
    /\ dry = NoDryRun
    /\ deploy = NoDeploy

\* before validate_rules is called on the files found
BatchNew(files) ==
    /\ rule_files = files
    /\ batch = NoBatch

\* before validate_all_rules of validate_network.py is called
NetRunNew == net_run = NoNetRun

(***************************************************************************)
(* Operations                                                              *)
(***************************************************************************)
\* a call of is_valid_ip_or_network(address)
Classify ==
    /\ result = <<>>
    /\ result' = is_valid_ip_or_network(config, address)
    /\ UNCHANGED <<address, net_vars, sec_vars, rule_file, pipe_vars, batch_vars, ext_vars>>

\* NetworkValidator.reset
NetReset ==
    /\ errors' = <<>>
    /\ warnings' = <<>>
    /\ info' = <<>>
    /\ ncall' = NoCall
    /\ UNCHANGED <<config, classify_vars, sec_vars, rule_file, pipe_vars, batch_vars, ext_vars>>

NetLists == [errors |-> errors, warnings |-> warnings, info |-> info, valid |-> TRUE]

NetStarted(op) ==
    [NoCall EXCEPT !.op = op, !.e0 = Len(errors), !.w0 = Len(warnings),
                   !.i0 = Len(info), !.n = ncall.n + 1]

\* NetworkValidator.validate_rule(rule)
NetValidateRule(rule) ==
    /\ ncall.n < MaxCalls
    /\ \E st \in {validate_rule(config, NetLists, rule)} :
          /\ errors' = st.errors
          /\ warnings' = st.warnings
          /\ info' = st.info
          /\ ncall' = [NetStarted("validate_rule") EXCEPT !.rule = rule, !.ret = st.valid]
    /\ UNCHANGED <<config, classify_vars, sec_vars, rule_file, pipe_vars, batch_vars, ext_vars>>

\* NetworkValidator.validate_addresses(addresses, address_type)
NetValidateAddresses(addresses, address_type) ==
    /\ ncall.n < MaxCalls
    /\ \E st \in {validate_addresses(config, NetLists, addresses, address_type)} :
          /\ errors' = st.errors
          /\ warnings' = st.warnings
          /\ info' = st.info
          /\ ncall' = [NetStarted("validate_addresses") EXCEPT
                          !.addresses = addresses, !.type = address_type, !.ret = st.valid]
    /\ UNCHANGED <<config, classify_vars, sec_vars, rule_file, pipe_vars, batch_vars, ext_vars>>

\* NetworkValidator.validate_zones(zones, zone_type)
NetValidateZones(zones, zone_type) ==
    /\ ncall.n < MaxCalls
    /\ \E st \in {validate_zones(config, NetLists, zones, zone_type)} :
          /\ errors' = st.errors
          /\ warnings' = st.warnings
          /\ info' = st.info
          /\ ncall' = [NetStarted("validate_zones") EXCEPT
                          !.zones = zones, !.type = zone_type, !.ret = TRUE]
    /\ UNCHANGED <<config, classify_vars, sec_vars, rule_file, pipe_vars, batch_vars, ext_vars>>

\* NetworkValidator.validate_services(services)
NetValidateServices(services) ==
    /\ ncall.n < MaxCalls
    /\ \E st \in {validate_services(NetLists, services)} :
          /\ errors' = st.errors
          /\ warnings' = st.warnings
          /\ info' = st.info
          /\ ncall' = [NetStarted("validate_services") EXCEPT !.services = services, !.ret = st.valid]
    /\ UNCHANGED <<config, classify_vars, sec_vars, rule_file, pipe_vars, batch_vars, ext_vars>>

\* SecurityPolicyValidator.reset
SecReset ==
    /\ sec_errors' = <<>>
    /\ sec_warnings' = <<>>
    /\ scall' = NoCall
    /\ UNCHANGED <<policies, classify_vars, net_vars, rule_file, pipe_vars, batch_vars, ext_vars>>

\* SecurityPolicyValidator.validate_rule(rule)
SecValidateRule(rule) ==
    /\ scall.n < MaxCalls
    /\ \E st \in {sec_validate_rule(policies, [errors |-> sec_errors, warnings |-> sec_warnings], rule)} :
          /\ sec_errors' = st.errors
          /\ sec_warnings' = st.warnings
          /\ scall' = [NoCall EXCEPT !.op = "validate_rule", !.rule = rule, !.ret = st.ret,
                                     !.e0 = Len(sec_errors), !.w0 = Len(sec_warnings),
                                     !.n = scall.n + 1]
    /\ UNCHANGED <<policies, classify_vars, net_vars, rule_file, pipe_vars, batch_vars, ext_vars>>

\* one iteration of the loop of validate_all_rules of validate_network.py
\* on the rule file: reset, then validate_rule
NetValidateFile ==
    /\ ncall.op = "none"
    /\ \E st \in {validate_rule(config, [errors |-> <<>>, warnings |-> <<>>, info |-> <<>>, valid |-> TRUE],
                                 rule_file)} :
          /\ errors' = st.errors
          /\ warnings' = st.warnings
          /\ info' = st.info
          /\ ncall' = [NoCall EXCEPT !.op = "validate_rule", !.rule = rule_file,
                                     !.ret = st.valid, !.n = 1]
    /\ UNCHANGED <<config, classify_vars, sec_vars, rule_file, pipe_vars, batch_vars, ext_vars>>

\* the same iteration with a validator that fills in the logging default
\* of the record it is given
SecValidateFile_setdefault ==
    /\ scall.op = "none"
    /\ \E st \in {sec_validate_rule(policies, [errors |-> <<>>, warnings |-> <<>>], rule_file)} :
          /\ sec_errors' = st.errors
          /\ sec_warnings' = st.warnings
          /\ scall' = [NoCall EXCEPT !.op = "validate_rule", !.rule = rule_file,
                                     !.ret = st.ret, !.n = 1]
    /\ rule_file' = [rule_file EXCEPT !.keys = @ \cup {"log_at_session_end"}]
    /\ UNCHANGED <<policies, classify_vars, net_vars, pipe_vars, batch_vars, ext_vars>>

\* one iteration of the loop of validate_all_rules of validate_security.py
SecValidateFile ==
    /\ scall.op = "none"
    /\ \E st \in {sec_validate_rule(policies, [errors |-> <<>>, warnings |-> <<>>], rule_file)} :
          /\ sec_errors' = st.errors
          /\ sec_warnings' = st.warnings
          /\ scall' = [NoCall EXCEPT !.op = "validate_rule", !.rule = rule_file,
                                     !.ret = st.ret, !.n = 1]
    /\ UNCHANGED <<policies, classify_vars, net_vars, rule_file, pipe_vars, batch_vars, ext_vars>>

\* validate_rule of validate_schema.py on the rule file
SchemaValidateFile ==
    /\ ~schema_errors.done
    /\ schema_errors' = [done |-> TRUE,
                         errors |-> schema_validate_rule(Document(rule_file), FIREWALL_RULE_SCHEMA, "rule_file")]
    /\ UNCHANGED <<classify_vars, net_vars, sec_vars, rule_file, dry, deploy, batch_vars, ext_vars>>

\* simulate_deployment of dry_run.py on the rule file
DryRun ==
    /\ ~dry.done
    /\ dry' = simulate_deployment(rule_file)
    /\ UNCHANGED <<classify_vars, net_vars, sec_vars, rule_file, schema_errors, deploy, batch_vars, ext_vars>>

\* deploy_rule of deploy_rule.py on the rule file
DeployRule(dry_run, credentials, set_ok, commit_ok) ==
    /\ ~deploy.done
    /\ deploy' = deploy_rule(rule_file, dry_run, credentials, set_ok, commit_ok)
    /\ UNCHANGED <<classify_vars, net_vars, sec_vars, rule_file, schema_errors, dry, batch_vars, ext_vars>>

\* validate_rules of validate_schema.py, up to the loop over sorted(rule_files)
BatchStart ==
    /\ batch.pc = "idle"
    /\ batch' = validate_rules_start(rule_files)
    /\ UNCHANGED <<classify_vars, net_vars, sec_vars, rule_file, pipe_vars, rule_files, ext_vars>>

\* one iteration of the loop of validate_rules
BatchFile ==
    /\ batch.pc = "loop"
    /\ batch.pos <= Len(batch.files)
    /\ batch' = validate_rules_file(batch, batch.files[batch.pos], FIREWALL_RULE_SCHEMA)
    /\ UNCHANGED <<classify_vars, net_vars, sec_vars, rule_file, pipe_vars, rule_files, ext_vars>>

\* the end of the loop of validate_rules: the summary and the return
BatchReturn ==
    /\ batch.pc = "loop"
    /\ batch.pos > Len(batch.files)
    /\ batch' = validate_rules_return(batch)
    /\ UNCHANGED <<classify_vars, net_vars, sec_vars, rule_file, pipe_vars, rule_files, ext_vars>>

\* validate_all_rules of validate_network.py, up to the loop over
\* sorted(rule_files): validator = NetworkValidator()
NetRunStart ==
    /\ net_run.pc = "idle"
    /\ net_run' = net_run_start(rule_files)
    /\ config' = NETWORK_CONFIG
    /\ errors' = <<>>
    /\ warnings' = <<>>
    /\ info' = <<>>
    /\ ncall' = NoCall
    /\ UNCHANGED <<classify_vars, sec_vars, rule_file, pipe_vars, batch_vars,
                   commit_job, deployment, portal, repo>>

\* one iteration of the loop of validate_all_rules: reset, load,
\* validate_rule, the totals
NetRunFile ==
    /\ net_run.pc = "loop"
    /\ net_run.pos <= Len(net_run.files)
    /\ \E st \in {net_run_validated(config, net_run.files[net_run.pos])} :
          /\ net_run' = net_run_file(net_run, net_run.files[net_run.pos], st)
          /\ errors' = st.errors
          /\ warnings' = st.warnings
          /\ info' = st.info
          /\ ncall' = IF st.raised THEN NoCall
                      ELSE [NoCall EXCEPT !.op = "validate_rule", !.ret = st.valid, !.n = 1,
                                          !.rule = net_run.files[net_run.pos].doc.rule]
    /\ UNCHANGED <<config, classify_vars, sec_vars, rule_file, pipe_vars, batch_vars,
                   commit_job, deployment, portal, repo>>

\* the end of the loop of validate_all_rules: the summary and the return
NetRunReturn ==
    /\ net_run.pc = "loop"
    /\ net_run.pos > Len(net_run.files)
    /\ net_run' = net_run_return(net_run)
    /\ UNCHANGED <<classify_vars, net_vars, sec_vars, rule_file, pipe_vars, batch_vars,
                   commit_job, deployment, portal, repo>>

\* api.wait_for_commit(job_id, timeout, poll_interval)
WaitCall(timeout, poll_interval) ==
    /\ commit_job.pc = "idle"
    /\ commit_job' = wait_for_commit_start(commit_job, timeout, poll_interval)
    /\ UNCHANGED <<classify_vars, net_vars, sec_vars, rule_file, pipe_vars, batch_vars,
                   net_run, deployment, portal, repo>>

\* the while condition of wait_for_commit, and the return after the loop
WaitTest ==
    /\ commit_job.pc = "test"
    /\ commit_job' = wait_for_commit_test(commit_job)
    /\ UNCHANGED <<classify_vars, net_vars, sec_vars, rule_file, pipe_vars, batch_vars,
                   net_run, deployment, portal, repo>>

\* get_commit_status and what follows it in the loop body: the request
\* takes `took` seconds, the job has got to `progress` and the firewall
\* answers xml
WaitPoll(took, progress, xml) ==
    /\ commit_job.pc = "poll"
    /\ progress >= commit_job.progress
    /\ xml \in JobAnswers(progress)
    /\ commit_job' = [wait_for_commit_polled(commit_job, get_commit_status(xml))
                         EXCEPT !.now = @ + took, !.progress = progress]
    /\ UNCHANGED <<classify_vars, net_vars, sec_vars, rule_file, pipe_vars, batch_vars,
                   net_run, deployment, portal, repo>>

\* time.sleep(poll_interval), which returns after poll_interval seconds or
\* later
WaitSleep(late) ==
    /\ commit_job.pc = "sleep"
    /\ commit_job' = wait_for_commit_slept(commit_job, commit_job.poll_interval + late)
    /\ UNCHANGED <<classify_vars, net_vars, sec_vars, rule_file, pipe_vars, batch_vars,
                   net_run, deployment, portal, repo>>

\* deploy_rule(rule_file, dry_run): load_rule_file and the dry-run branch
DeployLoad(dry_run, loaded) ==
    /\ deployment.pc = "idle"
    /\ deployment' = deploy_load(deployment, dry_run, loaded)
    /\ UNCHANGED <<classify_vars, net_vars, sec_vars, rule_file, pipe_vars, batch_vars,
                   net_run, commit_job, portal, repo>>

\* deploy_rule: the credentials read from the environment
DeployCredentials(firewall_ip, api_key, login) ==
    /\ deployment.pc = "credentials"
    /\ deployment' = deploy_credentials(deployment, firewall_ip, api_key, login)
    /\ UNCHANGED <<classify_vars, net_vars, sec_vars, rule_file, pipe_vars, batch_vars,
                   net_run, commit_job, portal, repo>>

\* deploy_rule: the API client, the connection test, the existing rule
DeployConnect(keygen_ok) ==
    /\ deployment.pc = "connect"
    /\ deployment' = deploy_connect(deployment, deployment.api_key, keygen_ok)
    /\ UNCHANGED <<classify_vars, net_vars, sec_vars, rule_file, pipe_vars, batch_vars,
                   net_run, commit_job, portal, repo>>

\* deploy_rule: create_security_rule
DeploySet(answer) ==
    /\ deployment.pc = "set"
    /\ deployment' = deploy_set(deployment, rule_file, answer)
    /\ UNCHANGED <<classify_vars, net_vars, sec_vars, rule_file, pipe_vars, batch_vars,
                   net_run, commit_job, portal, repo>>

\* deploy_rule: commit
DeployCommit(answer, job_id) ==
    /\ deployment.pc = "commit"
    /\ deployment' = deploy_commit(deployment, answer, job_id)
    /\ UNCHANGED <<classify_vars, net_vars, sec_vars, rule_file, pipe_vars, batch_vars,
                   net_run, commit_job, portal, repo>>

\* deploy_rule: wait_for_commit
DeployWait(outcome, polls) ==
    /\ deployment.pc = "wait"
    /\ deployment' = deploy_wait(deployment, outcome, polls)
    /\ UNCHANGED <<classify_vars, net_vars, sec_vars, rule_file, pipe_vars, batch_vars,
                   net_run, commit_job, portal, repo>>

\* a form submitted to thread t: submit_request (and, for the firewall
\* service, handle_firewall_rule_request) up to the load of the counter
SubmitRequest(t, service_id, git_enabled) ==
    /\ portal.threads[t].pc = "idle"
    /\ git_enabled => service_id = "palo_alto_firewall_rule"
    /\ portal' = submit_request(portal, t, service_id, git_enabled)
    /\ UNCHANGED <<classify_vars, net_vars, sec_vars, rule_file, pipe_vars, batch_vars,
                   net_run, commit_job, deployment, repo>>

\* the store that ends `request_counter += 1`
CounterStore(t) ==
    /\ portal.threads[t].pc = "store"
    /\ portal' = request_counter_store(portal, t)
    /\ UNCHANGED <<classify_vars, net_vars, sec_vars, rule_file, pipe_vars, batch_vars,
                   net_run, commit_job, deployment, repo>>

\* the request built, stored and handed to its provisioning thread
CreateRequest(t) ==
    /\ portal.threads[t].pc = "create"
    /\ portal' = service_requests_insert(portal, t)
    /\ UNCHANGED <<classify_vars, net_vars, sec_vars, rule_file, pipe_vars, batch_vars,
                   net_run, commit_job, deployment, repo>>

\* execute_provisioning: the playbook looked up
ProvisionStandard(t, playbook) ==
    /\ portal.threads[t].pc = "provision"
    /\ portal' = execute_provisioning(portal, t, playbook)
    /\ UNCHANGED <<classify_vars, net_vars, sec_vars, rule_file, pipe_vars, batch_vars,
                   net_run, commit_job, deployment, repo>>

\* execute_provisioning: the playbook run
ProvisionRun(t, outcome) ==
    /\ portal.threads[t].pc = "run"
    /\ portal' = execute_provisioning_run(portal, t, outcome)
    /\ UNCHANGED <<classify_vars, net_vars, sec_vars, rule_file, pipe_vars, batch_vars,
                   net_run, commit_job, deployment, repo>>

\* execute_firewall_rule_provisioning: the first status
ProvisionGenerate(t) ==
    /\ portal.threads[t].pc = "generate"
    /\ portal' = provisioning_generate(portal, t)
    /\ UNCHANGED <<classify_vars, net_vars, sec_vars, rule_file, pipe_vars, batch_vars,
                   net_run, commit_job, deployment, repo>>

\* execute_firewall_rule_provisioning: the rule file written, or not
ProvisionWrite(t, written) ==
    /\ portal.threads[t].pc = "write"
    /\ portal' = provisioning_write(portal, t, written)
    /\ UNCHANGED <<classify_vars, net_vars, sec_vars, rule_file, pipe_vars, batch_vars,
                   net_run, commit_job, deployment, repo>>

\* commit_rule_to_git up to line 516: `git config` fails and the call
\* returns False, or the URL of origin is read
GitRemote(t, credentials, configured) ==
    /\ portal.threads[t].pc = "remote"
    /\ IF configured
       THEN /\ repo' = git_get_url(repo, t, repo.origin)
            /\ portal' = [portal EXCEPT !.threads[t].pc =
                             IF sets_url(repo', t, credentials) THEN "set_url" ELSE "push"]
       ELSE /\ repo' = [repo EXCEPT !.calls[t] = NoGitCall]
            /\ portal' = provisioning_git_returned(portal, t, FALSE)
    /\ UNCHANGED <<classify_vars, net_vars, sec_vars, rule_file, pipe_vars, batch_vars,
                   net_run, commit_job, deployment>>

\* commit_rule_to_git: the URL with the credentials set on origin
GitSetUrl(t) ==
    /\ portal.threads[t].pc = "set_url"
    /\ repo' = git_set_url(repo, t)
    /\ portal' = [portal EXCEPT !.threads[t].pc = "push"]
    /\ UNCHANGED <<classify_vars, net_vars, sec_vars, rule_file, pipe_vars, batch_vars,
                   net_run, commit_job, deployment>>

\* commit_rule_to_git: fetch, branch, add, commit and push
GitCommitPush(t, outcome) ==
    /\ portal.threads[t].pc = "push"
    /\ repo' = git_commit_push(repo, t, outcome)
    /\ portal' = [portal EXCEPT !.threads[t].pc = "restore"]
    /\ UNCHANGED <<classify_vars, net_vars, sec_vars, rule_file, pipe_vars, batch_vars,
                   net_run, commit_job, deployment>>

\* commit_rule_to_git: the URL put back and the return, then what
\* execute_firewall_rule_provisioning does with the returned value
GitRestore(t) ==
    /\ portal.threads[t].pc = "restore"
    /\ repo' = git_restore(repo, t)
    /\ portal' = provisioning_git_returned(portal, t, repo.calls[t].ret)
    /\ UNCHANGED <<classify_vars, net_vars, sec_vars, rule_file, pipe_vars, batch_vars,
                   net_run, commit_job, deployment>>

\* execute_ansible_deployment
Ansible(t, outcome) ==
    /\ portal.threads[t].pc = "ansible"
    /\ portal' = execute_ansible_deployment(portal, t, outcome)
    /\ UNCHANGED <<classify_vars, net_vars, sec_vars, rule_file, pipe_vars, batch_vars,
                   net_run, commit_job, deployment, repo>>

\* before any of the deployment and of the portal
ExtNew ==
    /\ NetRunNew
    /\ commit_job = NoCommitJob
    /\ deployment = NoDeployment
    /\ portal = NoPortal
    /\ repo = NoRepo

(***************************************************************************)
(* Specifications                                                          *)
(***************************************************************************)
\* address classification: one token, classified and validated on its own
InitClassify ==
    /\ address \in Tokens
    /\ result = <<>>
    /\ \E arg \in NetConfigArgs : NetNew(arg)
    /\ SecNew(NoRule)
    /\ rule_file = NoRule
    /\ PipeNew
    /\ BatchNew(<<>>)
    /\ ExtNew
NextClassify ==
    \/ Classify
    \/ NetValidateAddresses(<<address>>, S_source)
SpecClassify == InitClassify /\ [][NextClassify]_vars

\* one NetworkValidator object and its callers
InitNet ==
    /\ address = <<>>
    /\ result = <<>>
    /\ \E arg \in NetConfigArgs : NetNew(arg)
    /\ SecNew(NoRule)
    /\ rule_file = NoRule
    /\ PipeNew
    /\ BatchNew(<<>>)
    /\ ExtNew
NextNet ==
    \/ NetReset
    \/ \E rule \in NetRules : NetValidateRule(rule)
    \/ \E addresses \in DirectAddrLists, address_type \in {S_source, S_destination} :
          NetValidateAddresses(addresses, address_type)
    \/ \E zones \in DirectZoneLists, zone_type \in {S_source, S_destination} :
          NetValidateZones(zones, zone_type)
SpecNet == InitNet /\ [][NextNet]_vars

\* one SecurityPolicyValidator object and its callers
InitSec ==
    /\ address = <<>>
    /\ result = <<>>
    /\ NetNew(NoRule)
    /\ \E arg \in SecPolicyArgs : SecNew(arg)
    /\ rule_file = NoRule
    /\ PipeNew
    /\ BatchNew(<<>>)
    /\ ExtNew
NextSec ==
    \/ SecReset
    \/ \E rule \in SecRules : SecValidateRule(rule)
SpecSec == InitSec /\ [][NextSec]_vars

\* the two validation scripts run on the same rule file, each with its
\* default configuration
InitScripts ==
    /\ address = <<>>
    /\ result = <<>>
    /\ NetNew(NoRule)
    /\ SecNew(NoRule)
    /\ rule_file \in NetRules \cup SecRules
    /\ PipeNew
    /\ BatchNew(<<>>)
    /\ ExtNew
NextScripts ==
    \/ NetValidateFile
    \/ SecValidateFile
SpecScripts == InitScripts /\ [][NextScripts]_vars

\* the service list of one rule file: validated by the script, and handed
\* to validate_services on its own
InitServices ==
    /\ address = <<>>
    /\ result = <<>>
    /\ NetNew(NoRule)
    /\ SecNew(NoRule)
    /\ rule_file \in ServiceRules
    /\ PipeNew
    /\ BatchNew(<<>>)
    /\ ExtNew
NextServices ==
    \/ NetReset
    \/ NetValidateFile
    \/ NetValidateServices(Get(rule_file, "service", <<>>))
SpecServices == InitServices /\ [][NextServices]_vars

\* one rule file on its way to the firewall: the schema check, the two
\* validation scripts, the dry run and the deployment, in any order
InitPipeline ==
    /\ address = <<>>
    /\ result = <<>>
    /\ NetNew(NoRule)
    /\ SecNew(NoRule)
    /\ rule_file \in PipeRules
    /\ PipeNew
    /\ BatchNew(<<>>)
    /\ ExtNew
NextPipeline ==
    \/ SchemaValidateFile
    \/ NetValidateFile
    \/ SecValidateFile
    \/ DryRun
    \/ \E dry_run, credentials, set_ok, commit_ok \in BOOLEAN :
          DeployRule(dry_run, credentials, set_ok, commit_ok)
SpecPipeline == InitPipeline /\ [][NextPipeline]_vars

\* the schema batch run on the files found
InitBatch ==
    /\ address = <<>>
    /\ result = <<>>
    /\ NetNew(NoRule)
    /\ SecNew(NoRule)
    /\ rule_file = NoRule
    /\ PipeNew
    /\ \E files \in FileLists : BatchNew(files)
    /\ ExtNew
NextBatch ==
    \/ BatchStart
    \/ BatchFile
    \/ BatchReturn
SpecBatch == InitBatch /\ [][NextBatch]_vars

\* a rule file validated again and again by the two validators, each with
\* a configuration of its own
InitLifecycle ==
    /\ address = <<>>
    /\ result = <<>>
    /\ \E arg \in NetConfigArgs : NetNew(arg)
    /\ \E arg \in SecPolicyArgs : SecNew(arg)
    /\ rule_file \in NetRules \cup SecRules
    /\ PipeNew
    /\ BatchNew(<<>>)
    /\ ExtNew
NextLifecycle ==
    \/ NetReset
    \/ SecReset
    \/ NetValidateFile
    \/ SecValidateFile
SpecLifecycle == InitLifecycle /\ [][NextLifecycle]_vars

\* the network batch run on the files found
InitNetRun ==
    /\ address = <<>>
    /\ result = <<>>
    /\ NetNew(NoRule)
    /\ SecNew(NoRule)
    /\ rule_file = NoRule
    /\ PipeNew
    /\ \E files \in NetFileLists : BatchNew(files)
    /\ ExtNew
NextNetRun ==
    \/ NetRunStart
    \/ NetRunFile
    \/ NetRunReturn
SpecNetRun == InitNetRun /\ [][NextNetRun]_vars

\* one wait_for_commit call on a commit job
InitWait ==
    /\ address = <<>>
    /\ result = <<>>
    /\ NetNew(NoRule)
    /\ SecNew(NoRule)
    /\ rule_file = NoRule
    /\ PipeNew
    /\ BatchNew(<<>>)
    /\ ExtNew
NextWait ==
    \/ \E timeout \in Timeouts, poll_interval \in PollIntervals : WaitCall(timeout, poll_interval)
    \/ WaitTest
    \/ \E took \in 0..1, progress \in 0..2 :
          \E xml \in JobAnswers(progress) : WaitPoll(took, progress, xml)
    \/ \E late \in 0..1 : WaitSleep(late)
SpecWait == InitWait /\ [][NextWait]_vars

\* the same call, which goes on as long as it has a step to take: every
\* poll returns and every sleep ends
SpecWaitLive == SpecWait /\ WF_vars(NextWait)

\* one deploy_rule call on a rule file, with or without a rule_name
InitDeploy ==
    /\ address = <<>>
    /\ result = <<>>
    /\ NetNew(NoRule)
    /\ SecNew(NoRule)
    /\ rule_file \in {BaseRule, Without(BaseRule, "rule_name"),
                      [BaseRule EXCEPT !.source_zone = <<>>]}
    /\ PipeNew
    /\ BatchNew(<<>>)
    /\ ExtNew
NextDeploy ==
    \/ \E dry_run, loaded \in BOOLEAN : DeployLoad(dry_run, loaded)
    \/ \E firewall_ip, api_key, login \in BOOLEAN : DeployCredentials(firewall_ip, api_key, login)
    \/ \E keygen_ok \in BOOLEAN : DeployConnect(keygen_ok)
    \/ \E answer \in {"success", "error", "raise"} : DeploySet(answer)
    \/ \E answer \in {"success", "error", "raise"}, job_id \in BOOLEAN : DeployCommit(answer, job_id)
    \/ \E outcome \in {"ok", "failed", "timed out", "raise"}, polls \in 1..2 : DeployWait(outcome, polls)
SpecDeploy == InitDeploy /\ [][NextDeploy]_vars

\* the portal: forms submitted to the threads of the server, and the
\* provisioning threads of the requests on one repository
OriginUrls ==
    {<<"https://", "github.com", "/", "org/repo", ".git">>,
     <<"git@", "github.com", ":", "org/repo", ".git">>,
     <<"https://", "gitlab.com", "/", "org/repo", ".git">>}
InitPortal ==
    /\ address = <<>>
    /\ result = <<>>
    /\ NetNew(NoRule)
    /\ SecNew(NoRule)
    /\ rule_file = NoRule
    /\ PipeNew
    /\ BatchNew(<<>>)
    /\ NetRunNew
    /\ commit_job = NoCommitJob
    /\ deployment = NoDeployment
    /\ portal = NoPortal
    /\ repo \in {[NoRepo EXCEPT !.origin = url, !.cloned_from = url] : url \in OriginUrls}
\* the steps of the thread that serves a form
Handle(t) ==
    \/ \E service_id \in {"palo_alto_firewall_rule", "vm_provisioning"}, git_enabled \in BOOLEAN :
           SubmitRequest(t, service_id, git_enabled)
    \/ CounterStore(t)
    \/ CreateRequest(t)
\* the steps of the provisioning thread of a request
Provision(t) ==
    \/ \E playbook \in BOOLEAN : ProvisionStandard(t, playbook)
    \/ \E outcome \in {"ok", "failed", "timeout"} : ProvisionRun(t, outcome)
    \/ ProvisionGenerate(t)
    \/ \E written \in BOOLEAN : ProvisionWrite(t, written)
    \/ \E credentials, configured \in BOOLEAN : GitRemote(t, credentials, configured)
    \/ GitSetUrl(t)
    \/ \E outcome \in {"raised", "push failed", "pushed"} : GitCommitPush(t, outcome)
    \/ GitRestore(t)
    \/ \E outcome \in {"no playbook", "ok", "failed", "timeout", "raised"} : Ansible(t, outcome)
NextPortal ==
    \E t \in Threads : Handle(t) \/ Provision(t)
SpecPortal == InitPortal /\ [][NextPortal]_vars


\* the provisioning threads of firewall requests the handlers have stored,
\* numbered one after the other, on one repository
StoredRequests(git) ==
    [NoPortal EXCEPT
        !.request_counter = @ + MaxThreads,
        !.service_requests =
            [k \in 1..MaxThreads |->
                [ref |-> MaxThreads + 1 - k, id |-> RequestId(1000 + MaxThreads + 1 - k),
                 service_id |-> "palo_alto_firewall_rule", status |-> "Pending",
                 git_enabled |-> git[MaxThreads + 1 - k]]],
        !.threads = [t \in Threads |->
                        [NoThread EXCEPT !.pc = "generate",
                                         !.service_id = "palo_alto_firewall_rule",
                                         !.git_enabled = git[t]]]]
InitProvisioning ==
    /\ address = <<>>
    /\ result = <<>>
    /\ NetNew(NoRule)
    /\ SecNew(NoRule)
    /\ rule_file = NoRule
    /\ PipeNew
    /\ BatchNew(<<>>)
    /\ NetRunNew
    /\ commit_job = NoCommitJob
    /\ deployment = NoDeployment
    /\ portal \in {StoredRequests(git) : git \in [Threads -> BOOLEAN]}
    /\ repo \in {[NoRepo EXCEPT !.origin = url, !.cloned_from = url] : url \in OriginUrls}
\* the steps of execute_firewall_rule_provisioning
ProvisionFirewall(t) ==
    \/ ProvisionGenerate(t)
    \/ \E written \in BOOLEAN : ProvisionWrite(t, written)
    \/ \E credentials, configured \in BOOLEAN : GitRemote(t, credentials, configured)
    \/ GitSetUrl(t)
    \/ \E outcome \in {"raised", "push failed", "pushed"} : GitCommitPush(t, outcome)
    \/ GitRestore(t)
    \/ \E outcome \in {"no playbook", "ok", "failed", "timeout", "raised"} : Ansible(t, outcome)
NextProvisioning ==
    \E t \in Threads : ProvisionFirewall(t)
SpecProvisioning == InitProvisioning /\ [][NextProvisioning]_vars

\* the provisioning threads when every thread gets to run and every
\* external command returns
SpecProvisioningLive ==
    SpecProvisioning /\ \A t \in Threads : WF_vars(ProvisionFirewall(t))

(***************************************************************************)
(* Properties                                                              *)
(***************************************************************************)
\* what the last call appended to the lists of the validators
NetAddedErrors == SubSeq(errors, ncall.e0 + 1, Len(errors))
NetAddedWarnings == SubSeq(warnings, ncall.w0 + 1, Len(warnings))
NetAddedInfo == SubSeq(info, ncall.i0 + 1, Len(info))
SecAddedErrors == SubSeq(sec_errors, scall.e0 + 1, Len(sec_errors))
SecAddedWarnings == SubSeq(sec_warnings, scall.w0 + 1, Len(sec_warnings))

\* number of entries of a list with one of the given message texts
CountText(list, texts) == Cardinality({i \in 1..Len(list) : list[i].text \in texts})
CountMessage(list, messages) == Cardinality({i \in 1..Len(list) : list[i].message \in messages})

\* number of occurrences of x in a list
Occurrences(list, x) == Cardinality({i \in 1..Len(list) : list[i] = x})

\* the action of a rule is allow (compared as validate_rule compares it,
\* after lower-casing)
IsAllow(rule) == Lower(Get(rule, "action", <<>>)) = S_allow

\* C1: NetworkValidator.validate_rule on a freshly reset validator returns
\* True if and only if the error list is empty after the call
C1_PassIffNoErrors ==
    (ncall.op = "validate_rule" /\ ncall.n = 1) => (ncall.ret <=> errors = <<>>)

\* the rule triggers an error-level check of the security policy:
\* any-to-any allow, prohibited source, restricted application
TriggersErrorCheck(pol, rule) ==
    /\ IsAllow(rule)
    /\ \/ /\ InList(S_any, Get(rule, "source_address", <<>>))
          /\ InList(S_any, Get(rule, "destination_address", <<>>))
       \/ \E i \in 1..Len(Get(rule, "source_address", <<>>)) :
             InList(Get(rule, "source_address", <<>>)[i], Get(pol, "prohibited_sources", <<>>))
       \/ \E i \in 1..Len(Get(rule, "application", <<>>)) :
             Lower(Get(rule, "application", <<>>)[i]) \in LowerSet(Get(pol, "restricted_applications", <<>>))

\* C2: SecurityPolicyValidator.validate_rule returns True if and only if the
\* rule being validated triggers no error-level check
C2_PassIffNoErrorCheck ==
    scall.op = "validate_rule" => (scall.ret <=> ~TriggersErrorCheck(policies, scall.rule))

\* C3: every validate_rule call gives the lists and the value that validating
\* the same rule with the same configuration gives on a new validator:
\* nothing of an earlier evaluation is carried into a later one
C3_SameResultEveryTime ==
    /\ scall.op = "validate_rule" =>
         LET first == sec_validate_rule(policies, [errors |-> <<>>, warnings |-> <<>>], scall.rule)
         IN /\ sec_errors = first.errors
            /\ sec_warnings = first.warnings
            /\ scall.ret = first.ret
    /\ ncall.op = "validate_rule" =>
         LET first == validate_rule(config, [errors |-> <<>>, warnings |-> <<>>, info |-> <<>>, valid |-> TRUE],
                                    ncall.rule)
         IN /\ errors = first.errors
            /\ warnings = first.warnings
            /\ info = first.info
            /\ ncall.ret = first.valid

AnyInSource(rule) == InList(S_any, Get(rule, "source_address", <<>>))
AnyInDestination(rule) == InList(S_any, Get(rule, "destination_address", <<>>))
AnyErrors == CountMessage(SecAddedErrors, {"any source AND any destination"})
AnyWarnings == CountMessage(SecAddedWarnings, {"any source", "any destination"})

\* C4: an allow rule with 'any' in both address lists gets the any-to-any
\* error and fails; with 'any' in exactly one list it gets exactly one
\* any-usage warning and no any-usage error; a rule that is not allow gets
\* neither
C4_AnyUsage ==
    scall.op = "validate_rule" =>
        /\ (IsAllow(scall.rule) /\ AnyInSource(scall.rule) /\ AnyInDestination(scall.rule))
              => (AnyErrors >= 1 /\ ~scall.ret)
        /\ (IsAllow(scall.rule) /\ (AnyInSource(scall.rule) # AnyInDestination(scall.rule)))
              => (AnyWarnings = 1 /\ AnyErrors = 0)
        /\ ~IsAllow(scall.rule) => (AnyErrors = 0 /\ AnyWarnings = 0)

C4_Witness ==
    /\ scall.op = "validate_rule"
    /\ scall.n = 2
    /\ IsAllow(scall.rule)
    /\ AnyInDestination(scall.rule) /\ ~AnyInSource(scall.rule)
    /\ AnyWarnings = 1
    /\ Len(sec_errors) > 0

\* the scenario rule: allow, source 0.0.0.0/0, destination any
ScenarioOpenSource(rule) ==
    /\ Get(rule, "action", <<>>) = S_allow
    /\ Get(rule, "source_address", <<>>) = << A_0_0_0_0_0 >>
    /\ Get(rule, "destination_address", <<>>) = << S_any >>

\* C5: each source token equal to a configured prohibited source gets one
\* 'Prohibited source address' error when the action is allow and none
\* otherwise (tokens that are not equal to one get none); the scenario rule
\* gets that error from the security validator and the denylist warning for
\* the same address from the network validator
C5_ProhibitedSource ==
    /\ scall.op = "validate_rule" =>
         LET src == Get(scall.rule, "source_address", <<>>)
             hits(t) == Cardinality({i \in 1..Len(sec_errors) :
                           /\ sec_errors[i].message = "Prohibited source address"
                           /\ sec_errors[i].item = t})
         IN \A t \in Range(src) \cup Range(Get(policies, "prohibited_sources", <<>>)) :
               hits(t) = IF IsAllow(scall.rule) /\ InList(t, Get(policies, "prohibited_sources", <<>>))
                         THEN Occurrences(src, t) ELSE 0
    /\ (scall.op = "validate_rule" /\ ScenarioOpenSource(rule_file)) =>
         /\ ~scall.ret
         /\ \E i \in 1..Len(sec_errors) :
               sec_errors[i] = SecMsg(Get(rule_file, "rule_name", S_Unknown),
                                      "Prohibited source address", A_0_0_0_0_0, "ERROR")
    /\ (ncall.op = "validate_rule" /\ ScenarioOpenSource(rule_file)) =>
         \E i \in 1..Len(warnings) :
            warnings[i] = NetMsg("contains special address", S_source, A_0_0_0_0_0, 0)

C5_Witness ==
    /\ ScenarioOpenSource(rule_file)
    /\ scall.op = "validate_rule"
    /\ ncall.op = "validate_rule"
    /\ Len(sec_errors) = 1

\* C6: with require-logging on, the logging warning is added if and only if
\* neither effective logging flag is true, a flag that the rule omits being
\* true by default
C6_LoggingDefaultTrue ==
    (scall.op = "validate_rule" /\ Get(policies, "require_logging", FALSE)) =>
        (CountMessage(SecAddedWarnings, {"Logging is not enabled"}) = 1
           <=> ~(Get(scall.rule, "log_at_session_start", TRUE)
                 \/ Get(scall.rule, "log_at_session_end", TRUE)))

\* the steps of the classification, each on its own
IsKeyword(a) == Lower(a) \in {S_any, S_none}
ObjectShaped(cfg, a) ==
    /\ ReMatch(Get(cfg, "address_object_pattern", PAT_LETTER), a)
    /\ \A i \in 1..Len(a) : a[i] \notin {".", ":", "/"}
BadToken(cfg, a) ==
    ~IsKeyword(a) /\ ~ObjectShaped(cfg, a) /\ ~IsIPAddress(a) /\ ~IsIPNetwork(a)

\* C7: a token is classified by the first step that matches, in the order
\* keyword, address object, literal IP, network, else invalid; every valid
\* IP literal and CIDR network is classified valid and gets no error
C7_ClassificationOrder ==
    /\ result # <<>> =>
        /\ IsKeyword(address) => result = <<TRUE, "keyword">>
        /\ (~IsKeyword(address) /\ ObjectShaped(config, address))
              => result = <<TRUE, "address_object">>
        /\ (~IsKeyword(address) /\ ~ObjectShaped(config, address) /\ IsIPAddress(address))
              => result = <<TRUE, "ip_address">>
        /\ (~IsKeyword(address) /\ ~ObjectShaped(config, address) /\ ~IsIPAddress(address)
               /\ IsIPNetwork(address))
              => result = <<TRUE, "ip_network">>
        /\ BadToken(config, address) => result = <<FALSE, "invalid">>
        /\ (IsIPAddress(address) \/ IsIPNetwork(address)) => result[1]
    /\ (ncall.op = "validate_addresses" /\ (IsIPAddress(address) \/ IsIPNetwork(address)))
          => (NetAddedErrors = <<>> /\ ncall.ret)

C7_Witness ==
    /\ result = <<TRUE, "ip_network">>
    /\ address = A_10_0_0_5_mask
    /\ ncall.op = "validate_addresses"
    /\ errors = <<>>

\* what C8 promises for a token: classified as an address object, and
\* validate_addresses adds an info note and no error for it
ObjectOutcome ==
    /\ result # <<>> => result = <<TRUE, "address_object">>
    /\ ncall.op = "validate_addresses" =>
          /\ NetAddedErrors = <<>>
          /\ NetAddedInfo = << NetMsg("uses address object", S_source, address, 0) >>

C9_InvalidAddress ==
    ncall.op = "validate_addresses" =>
        LET Bad(t) == BadToken(config, t)
            Obj(t) == ~IsKeyword(t) /\ ObjectShaped(config, t)
            bad == SelectSeq(ncall.addresses, Bad)
            obj == SelectSeq(ncall.addresses, Obj)
        IN /\ NetAddedErrors = [i \in 1..Len(bad) |->
                                  NetMsg("Invalid address", ncall.type, bad[i], 0)]
           /\ \A i \in 1..Len(NetAddedWarnings) : ~Bad(NetAddedWarnings[i].item)
           /\ \A i \in 1..Len(NetAddedInfo) : ~Bad(NetAddedInfo[i].item)
           /\ bad # <<>> => ~ncall.ret
           /\ NetAddedInfo = [i \in 1..Len(obj) |->
                                NetMsg("uses address object", ncall.type, obj[i], 0)]

C9_Witness ==
    /\ ncall.op = "validate_addresses"
    /\ ncall.n = 2
    /\ ncall.addresses = <<A_star, A_web_server, A_star>>
    /\ Len(NetAddedErrors) = 2
    /\ Len(NetAddedInfo) = 1
    /\ InList(A_star, Get(config, "warn_addresses", <<>>))

\* C10: every token of the list that equals an entry of the configured
\* denylist gets a 'contains special address' warning, however the token
\* was classified
C10_DenylistAlwaysWarns ==
    ncall.op = "validate_addresses" =>
        \A i \in 1..Len(ncall.addresses) :
            InList(ncall.addresses[i], Get(config, "warn_addresses", <<>>)) =>
                \E k \in 1..Len(NetAddedWarnings) :
                    NetAddedWarnings[k] = NetMsg("contains special address", ncall.type,
                                                 ncall.addresses[i], 0)

\* number of errors with the given text that the last call added for a token
PortErrors(text, token) ==
    Cardinality({i \in 1..Len(NetAddedErrors) :
                    NetAddedErrors[i] = NetMsg(text, "", token, 0)})

PortInRange(digits) == ~PortTooBig(digits) /\ DecVal(StripZeros(digits)) >= 1

\* C12: a rule file that the network validation script leaves without any
\* error has, in every proto-port service token, ports in 1..65535 only
C12_PortZeroRejected ==
    (ncall.op = "validate_rule" /\ errors = <<>>) =>
        \A i \in 1..Len(Get(rule_file, "service", <<>>)) :
            LET port_match == PortMatch(Get(rule_file, "service", <<>>)[i])
            IN port_match # <<>> =>
                  /\ PortInRange(port_match[1])
                  /\ PortInRange(PortEnd(port_match))

\* the zone, lower-cased, is a configured zone (lower-cased) or 'any'
KnownZone(zone) ==
    Lower(zone) \in LowerSet(Get(config, "valid_zones", <<>>)) \cup {S_any}

\* the 'Unknown zone' warnings for the unknown zones of a list, in order
ZoneWarnings(zones, zone_type) ==
    LET Unknown(zone) == ~KnownZone(zone)
        unknown == SelectSeq(zones, Unknown)
    IN [i \in 1..Len(unknown) |-> NetMsg("Unknown zone", zone_type, unknown[i], 0)]

\* the entries of a list of messages with the given text
WithText(list, text) ==
    LET Test(m) == m.text = text
    IN SelectSeq(list, Test)

\* C13: validate_zones adds exactly one warning, naming the zone and the
\* direction, for every zone that lower-cased is neither a configured zone
\* nor 'any', and nothing else; validate_rule adds these warnings for both
\* zone lists, no error for a zone, and returns False only for an invalid
\* address, whatever the zones are
C13_ZonesOnlyWarn ==
    /\ ncall.op = "validate_zones" =>
         /\ NetAddedWarnings = ZoneWarnings(ncall.zones, ncall.type)
         /\ NetAddedErrors = <<>>
         /\ NetAddedInfo = <<>>
         /\ ncall.ret
    /\ ncall.op = "validate_rule" =>
         /\ WithText(NetAddedWarnings, "Unknown zone")
               = ZoneWarnings(Get(ncall.rule, "source_zone", <<>>), S_source)
                 \o ZoneWarnings(Get(ncall.rule, "destination_zone", <<>>), S_destination)
         /\ \A i \in 1..Len(NetAddedErrors) :
               NetAddedErrors[i].text \in {"Invalid address", "Invalid port number", "Invalid port range"}
         /\ ncall.ret <=>
               \A t \in Range(Get(ncall.rule, "source_address", <<>>))
                        \cup Range(Get(ncall.rule, "destination_address", <<>>)) :
                  ~BadToken(config, t)

C13_Witness ==
    /\ ncall.op = "validate_rule"
    /\ ncall.n = 2
    /\ Get(ncall.rule, "destination_zone", <<>>) = <<S_ANY, S_guest, S_guest>>
    /\ Len(WithText(NetAddedWarnings, "Unknown zone")) = 2
    /\ ~ncall.ret

\* C14: the untrust-to-protected-zone warning is added if and only if the
\* rule is an allow rule, a source zone is untrust or external and a
\* destination zone is a configured protected zone, zone names compared
\* without regard to letter case on both sides
C14_ZonePolicyAnyCase ==
    scall.op = "validate_rule" =>
        (CountMessage(SecAddedWarnings, {"untrust to protected zone"}) >= 1
           <=> /\ IsAllow(scall.rule)
               /\ LowerSet(Get(scall.rule, "source_zone", <<>>)) \cap {S_untrust, S_external} # {}
               /\ LowerSet(Get(scall.rule, "destination_zone", <<>>))
                     \cap LowerSet(Get(policies, "protected_zones", <<>>)) # {})

\* the entries of a list of security findings with the given message
WithMessage(list, message) ==
    LET Test(m) == m.message = message
    IN SelectSeq(list, Test)

\* C15: for an allow rule every application token that, lower-cased, equals
\* a configured restricted application (lower-cased) adds one 'Restricted
\* application detected' error naming the token, in order, and the call
\* returns False; a rule that is not allow gets no such error
C15_RestrictedApplications ==
    scall.op = "validate_rule" =>
        LET Restricted(app) ==
                Lower(app) \in LowerSet(Get(policies, "restricted_applications", <<>>))
            hits == SelectSeq(Get(scall.rule, "application", <<>>), Restricted)
            found == WithMessage(SecAddedErrors, "Restricted application detected")
        IN /\ IsAllow(scall.rule) =>
                 /\ found = [i \in 1..Len(hits) |->
                               SecMsg(Get(scall.rule, "rule_name", S_Unknown),
                                      "Restricted application detected", hits[i], "ERROR")]
                 /\ hits # <<>> => ~scall.ret
           /\ ~IsAllow(scall.rule) => found = <<>>

C15_Witness ==
    /\ scall.op = "validate_rule"
    /\ scall.n = 2
    /\ Get(scall.rule, "application", <<>>) = <<S_bittorrent, S_web_browsing, S_Tor>>
    /\ Len(SecAddedErrors) = 2
    /\ ~scall.ret

\* the token is classified as a network: no keyword, no address object, no
\* literal IP, and ip_network parses it
NetworkToken(cfg, a) ==
    ~IsKeyword(a) /\ ~ObjectShaped(cfg, a) /\ ~IsIPAddress(a) /\ IsIPNetwork(a)

\* C16: validate_addresses adds one 'large network' warning, citing the
\* token and its size, for a token classified as a network whose prefix
\* length is below 16, and none for a network of prefix length 16 or more,
\* for a literal IP, a keyword, an address object or an invalid token
C16_LargeNetwork ==
    ncall.op = "validate_addresses" =>
        WithText(NetAddedWarnings, "has large network")
          = IF NetworkToken(config, address) /\ NetworkPrefix(address) < 16
            THEN << NetMsg("has large network", S_source, address,
                           (IF Contains(address, ":") THEN 128 ELSE 32) - NetworkPrefix(address)) >>
            ELSE <<>>

C16_Witness ==
    /\ ncall.op = "validate_addresses"
    /\ address = A_10_1_0_0_15
    /\ NetAddedWarnings = << NetMsg("has large network", S_source, A_10_1_0_0_15, 17) >>

\* the six fields every rule record must have
SixFields ==
    {"rule_name", "source_zone", "destination_zone",
     "source_address", "destination_address", "action"}

\* the schema violations that name the field
ViolationsOf(field) ==
    {i \in 1..Len(schema_errors.errors) : schema_errors.errors[i].field = field}

\* C17: a rule record that lacks one of the six required fields is
\* rejected: the schema check of the record returns at least one violation
\* (one at the root for each missing field), and the dry run returns
\* failure without one simulated API call.
C17_MissingFieldRejected ==
    \A field \in SixFields :
        field \notin rule_file.keys =>
            /\ schema_errors.done =>
                  /\ Len(schema_errors.errors) >= 1
                  /\ \E i \in ViolationsOf(field) : schema_errors.errors[i].path = "root"
            /\ dry.done => (~dry.ret /\ dry.api_calls = <<>>)

\* C17 happens: the rule without its action, and nothing else wrong, went
\* through the schema check and the dry run
C17_Witness ==
    /\ rule_file = Without(BaseRule, "action")
    /\ schema_errors.done
    /\ Len(schema_errors.errors) = 1
    /\ dry.done
    /\ ~dry.ret
    /\ dry.api_calls = <<>>

\* the four zone and address lists of a rule record, with the element of
\* the set request each one becomes
FourLists ==
    {<<"source_zone", "from">>, <<"destination_zone", "to">>,
     <<"source_address", "source">>, <<"destination_address", "destination">>}

EmptyList(rule, field) == field \in rule.keys /\ rule[field] = <<>>

\* C18: a rule with an empty source_zone, destination_zone, source_address
\* or destination_address is never turned into a deployed rule: no set
\* request is built from it with the member any in the place of the empty
\* list.
C18_EmptyListNeverDeployed ==
    \A pair \in FourLists :
        EmptyList(rule_file, pair[1]) =>
            ~(deploy.sent /\ deploy.element[pair[2]] = <<S_any>>)

\* the rule has a name, and the name holds a whitespace character
WhitespaceInName(rule) ==
    /\ "rule_name" \in rule.keys
    /\ \E i \in 1..Len(rule.rule_name) : IsSpace(rule.rule_name[i])

\* C19: a rule whose rule_name contains whitespace fails the naming check
\* of the validation: once the schema check, the network validator and the
\* security validator have run on it, at least one of them has reported an
\* error or a warning.
C19_WhitespaceNameReported ==
    ( /\ WhitespaceInName(rule_file)
      /\ schema_errors.done
      /\ ncall.op = "validate_rule"
      /\ scall.op = "validate_rule" )
    => \/ schema_errors.errors # <<>>
       \/ errors # <<>>
       \/ warnings # <<>>
       \/ sec_errors # <<>>
       \/ sec_warnings # <<>>

\* the files of the batch that the loop has gone through
Processed == 1..(batch.pos - 1)

\* the errors collected for the file of that name
ErrorsFor(name) ==
    {i \in 1..Len(batch.all_errors) : batch.all_errors[i].file = name}

\* the file could not be parsed, or its validation raised
Unreadable(file) == file.load \in {"json_error", "exception"}

\* C20: in the schema batch run, a file that cannot be parsed or whose
\* validation raises contributes exactly one error, at path root, and is
\* counted as failed; the run goes on to every remaining file, each file
\* is counted once as passed or as failed according to its errors, and at
\* the end passed + failed is the number of files and the run returns True
\* iff no error was collected.
C20_BatchRun ==
    /\ batch.pc # "idle" =>
          /\ Len(batch.files) = Len(rule_files)
          /\ {batch.files[i] : i \in 1..Len(batch.files)} = {rule_files[i] : i \in 1..Len(rule_files)}
          /\ Processed \subseteq 1..Len(batch.files)
          /\ \A i \in Processed :
                /\ Unreadable(batch.files[i]) =>
                      /\ Cardinality(ErrorsFor(batch.files[i].name)) = 1
                      /\ \A e \in ErrorsFor(batch.files[i].name) : batch.all_errors[e].path = "root"
                /\ batch.files[i].load = "document" =>
                      Cardinality(ErrorsFor(batch.files[i].name))
                          = Len(schema_validate_rule(batch.files[i].doc, FIREWALL_RULE_SCHEMA, batch.files[i].name))
          /\ \A i \in 1..Len(batch.files) : i \notin Processed => ErrorsFor(batch.files[i].name) = {}
          /\ batch.failed_count = Cardinality({i \in Processed : ErrorsFor(batch.files[i].name) # {}})
          /\ batch.validated_count = Cardinality({i \in Processed : ErrorsFor(batch.files[i].name) = {}})
    /\ batch.pc = "done" =>
          /\ Processed = 1..Len(rule_files)
          /\ batch.validated_count + batch.failed_count = Len(rule_files)
          /\ batch.ret = (batch.all_errors = <<>>)

\* C20 happens: a run over three files, listed out of order, has returned;
\* the first file raised, the second was not JSON, the third was validated
\* and passed
C20_Witness ==
    /\ batch.pc = "done"
    /\ Len(rule_files) = 3
    /\ rule_files # batch.files
    /\ batch.files[1].load = "exception"
    /\ batch.files[2].load = "json_error"
    /\ batch.files[3].load = "document"
    /\ batch.validated_count = 1
    /\ batch.failed_count = 2
    /\ Len(batch.all_errors) = 2
    /\ ~batch.ret

\* C21: validation never changes what it is given: in every step of the
\* two validators the rule record, the network configuration and the
\* policy configuration stay what they were, the rule a call reports is the
\* record it was given, and a call of one validator leaves the lists of
\* the other alone.
C21_InputsUntouched ==
    [][ /\ rule_file' = rule_file
        /\ config' = config
        /\ policies' = policies
        /\ ncall'.op = "validate_rule" => ncall'.rule = rule_file
        /\ scall'.op = "validate_rule" => scall'.rule = rule_file
        /\ ncall' # ncall => sec_vars' = sec_vars
        /\ scall' # scall => net_vars' = net_vars ]_vars

\* C21 happens: both validators have validated a rule file that leaves
\* the logging flag to its default, and the security validator has
\* filled its warning list
C21_Witness ==
    /\ ncall.op = "validate_rule"
    /\ scall.op = "validate_rule"
    /\ sec_warnings # <<>>
    /\ "log_at_session_end" \notin rule_file.keys

\* C22: errors block deployment in the network batch run: the run returns
\* False whenever a file produced a network error or could not be loaded,
\* and True only when the total error list is empty; warnings alone never
\* make it return False.
C22_ErrorsBlock ==
    net_run.pc = "done" => (net_run.ret <=> net_run.total_errors = <<>>)

\* the polls of the wait_for_commit call that observed a finished job
FinPolls == {i \in 1..Len(commit_job.seen) : commit_job.seen[i].status = "FIN"}

\* C23: wait_for_commit is the polling machine: it returns True only
\* after a poll that observed FIN with result OK, it returns 'Commit
\* failed' at the first poll that observes FIN with another result or
\* none, it returns 'Commit timed out' only when no poll observed FIN and
\* the timeout has elapsed, and a poll that observes FIN is the last one.
C23_PollingMachine ==
    /\ \A i \in FinPolls : i = Len(commit_job.seen) /\ commit_job.pc = "done"
    /\ commit_job.pc = "done" =>
          /\ commit_job.message \in {"Commit successful", "Commit failed", "Commit timed out"}
          /\ commit_job.ret <=> commit_job.message = "Commit successful"
          /\ commit_job.message = "Commit successful" <=>
                \E i \in FinPolls : commit_job.seen[i].result = "OK"
          /\ commit_job.message = "Commit failed" <=>
                \E i \in FinPolls : commit_job.seen[i].result # "OK"
          /\ commit_job.message = "Commit timed out" <=> FinPolls = {}
          /\ commit_job.message = "Commit timed out" =>
                commit_job.now - commit_job.start_time >= commit_job.timeout

\* C23 happens: the call returned True at its third poll or later, after
\* polls that saw the job pending and active
C23_Witness ==
    /\ commit_job.pc = "done"
    /\ commit_job.ret
    /\ Len(commit_job.seen) >= 3
    /\ commit_job.seen[1].status \in {"unknown", "PEND"}
    /\ commit_job.seen[2].status = "ACT"

\* the least number of poll intervals that cover the timeout
CeilDiv(a, b) == IF a <= 0 THEN 0 ELSE (a + b - 1) \div b

\* C24: wait_for_commit always terminates: it makes at most
\* ceil(timeout / poll_interval) polls, with a timeout of 0 or less it
\* returns 'Commit timed out' without a poll, and once called it returns,
\* also for a job that never finishes.
C24_Terminates ==
    /\ [](commit_job.pc # "idle" =>
             Len(commit_job.seen) <= CeilDiv(commit_job.timeout, commit_job.poll_interval))
    /\ []((commit_job.pc = "done" /\ commit_job.timeout <= 0) =>
             (commit_job.seen = <<>> /\ commit_job.message = "Commit timed out"))
    /\ (commit_job.pc = "test" ~> commit_job.pc = "done")

\* C24 happens: the job was pending at every poll, the call made every
\* poll the timeout allows and returned 'Commit timed out'
C24_Witness ==
    /\ commit_job.pc = "done"
    /\ commit_job.message = "Commit timed out"
    /\ commit_job.progress = 0
    /\ commit_job.timeout >= 3
    /\ Len(commit_job.seen) >= 3
    /\ Len(commit_job.seen) = CeilDiv(commit_job.timeout, commit_job.poll_interval)

\* the positions of the requests of that kind that deploy_rule sent
Sent(kind) == {i \in 1..Len(deployment.requests) : deployment.requests[i] = kind}

\* C25: deploy_rule, not in a dry run, returns True and prints DEPLOYMENT
\* SUCCESSFUL only if the set request was answered with status success,
\* the commit request was answered with status success, and the commit job
\* was observed finished with result OK.
C25_SuccessMeansCommitted ==
    (deployment.pc = "done" /\ ~deployment.dry_run /\ deployment.ret) =>
        /\ deployment.successful
        /\ deployment.set_status = "success"
        /\ deployment.commit_status = "success"
        /\ deployment.wait = "ok"

\* the rank of a request in the order of the steps of deploy_rule
StepOf(kind) ==
    CASE kind = "keygen" -> 1 [] kind = "op" -> 2 [] kind = "get" -> 3
      [] kind = "set" -> 4 [] kind = "commit" -> 5 [] kind = "jobs" -> 6

\* C26: the steps of deploy_rule are ordered load, credentials, set,
\* commit, wait: a commit request is only sent after the set request was
\* answered with status success; when the file cannot be loaded, the
\* credentials are missing, or the set request fails or raises, no commit
\* request is sent and deploy_rule returns False.
C26_StepsOrdered ==
    /\ \A i, j \in 1..Len(deployment.requests) :
          i < j => StepOf(deployment.requests[i]) <= StepOf(deployment.requests[j])
    /\ deployment.requests # <<>> => (deployment.loaded /\ deployment.credentials_read)
    /\ Sent("commit") # {} =>
          /\ deployment.set_status = "success"
          /\ Cardinality(Sent("set")) = 1
          /\ Cardinality(Sent("commit")) = 1
    /\ Sent("jobs") # {} => Sent("commit") # {}
    /\ (deployment.pc = "done" /\ ~deployment.dry_run /\ Sent("commit") = {}) => ~deployment.ret
    /\ (deployment.pc = "done" /\ deployment.set_status # "success") => Sent("commit") = {}
    /\ (deployment.pc = "done" /\ ~deployment.loaded) => (deployment.requests = <<>> /\ ~deployment.ret)

\* C26 happens: the firewall answered the set request with an error, and
\* deploy_rule returned False after the keygen, the two reads and the set
C26_Witness ==
    /\ deployment.pc = "done"
    /\ deployment.requests = <<"keygen", "op", "get", "set">>
    /\ deployment.set_status = "error"
    /\ ~deployment.ret

\* C27: deploy_rule with dry_run=True sends no API request, reads no
\* credentials, and returns True iff the rule file could be loaded.
C27_DryRunTouchesNothing ==
    (deployment.pc = "done" /\ deployment.dry_run) =>
        /\ deployment.requests = <<>>
        /\ ~deployment.credentials_read
        /\ ~deployment.successful
        /\ deployment.ret <=> deployment.loaded

\* C27 happens: a dry run of a rule file that could not be loaded
C27_Witness ==
    /\ deployment.pc = "done"
    /\ deployment.dry_run
    /\ ~deployment.loaded
    /\ ~deployment.ret

\* the threads whose request is in the store
Stored == {t \in Threads : \E k \in 1..Len(portal.service_requests) :
                               portal.service_requests[k].ref = t}

\* C28: the requests of the store have pairwise different IDs, whatever
\* the interleaving of the handlers that created them
C28_RequestIdsUnique ==
    \A i, j \in 1..Len(portal.service_requests) :
        i # j => portal.service_requests[i].id # portal.service_requests[j].id

\* the statuses a provisioning run may end with
TerminalStatuses == {"Completed - Pending CI/CD", "Completed", "Failed", "Timeout"}

\* the threads that run execute_firewall_rule_provisioning
Provisioning(t) ==
    /\ portal.threads[t].service_id = "palo_alto_firewall_rule"
    /\ portal.threads[t].pc \in {"generate", "write", "remote", "set_url", "push",
                                 "restore", "ansible"}

\* what holds of the request of thread t once its provisioning has ended
EndedRight(t) ==
    /\ RequestOf(portal, t).status \in TerminalStatuses
    /\ RequestOf(portal, t).status = "Completed - Pending CI/CD"
           <=> (portal.threads[t].git_enabled /\ t \in repo.pushed)
    /\ RequestOf(portal, t).status = "Completed - Pending CI/CD"
           => "execute_ansible_deployment" \notin portal.threads[t].called

\* C29: every run of execute_firewall_rule_provisioning ends, and ends
\* with a terminal status; the status is 'Completed - Pending CI/CD'
\* exactly when Git is enabled and the push succeeded, and then
\* execute_ansible_deployment was not called
C29_ProvisioningEnds ==
    /\ [](\A t \in Threads :
              (portal.threads[t].service_id = "palo_alto_firewall_rule"
               /\ portal.threads[t].pc = "done") => EndedRight(t))
    /\ \A t \in Threads : Provisioning(t) ~> (portal.threads[t].pc = "done")

\* two firewall requests ended, one pushed and waiting for CI/CD, one
\* deployed directly after its push failed
C29_Witness ==
    \E t, u \in Threads :
        /\ portal.threads[t].pc = "done" /\ portal.threads[u].pc = "done"
        /\ portal.threads[t].git_enabled /\ portal.threads[u].git_enabled
        /\ t \in Stored /\ u \in Stored
        /\ RequestOf(portal, t).status = "Completed - Pending CI/CD"
        /\ RequestOf(portal, u).status = "Completed"
        /\ "commit_rule_to_git" \in portal.threads[u].called

\* the threads inside commit_rule_to_git, and those it returned to
InCommit == {t \in Threads : portal.threads[t].pc \in {"remote", "set_url", "push", "restore"}}
Returned == {t \in Threads : "commit_rule_to_git" \in portal.threads[t].called} \ InCommit

\* C30: when commit_rule_to_git has returned and no thread is inside it,
\* the URL of origin is the URL it had before the calls
C30_RemoteRestored ==
    (Returned # {} /\ InCommit = {}) => repo.origin = repo.cloned_from

====
